---------------------------- MODULE Spec2Model ----------------------------
(***************************************************************************)
(* KLL quantile sketches of apache-datasketches-go: the generic            *)
(* ItemsSketch (src/kll/items_sketch.go) and the DoubleSketch              *)
(* (src/unnamed/part_003, src/kll/double_sketch.go).                       *)
(*                                                                         *)
(* Go slices are 0-indexed; they are modelled as sequences and read with   *)
(* At(s, i) == s[i + 1].  Items are strings ordered by <; the model uses   *)
(* the naturals 0, 1, 2, ... for "", "A", "B", ... (the order is kept, 0   *)
(* is the zero value a fresh buffer is filled with).                       *)
(***************************************************************************)
EXTENDS Integers, Sequences, FiniteSets, TLC

VARIABLES A, seen, last, out, D, dres, B

vars == <<A, seen, last, out, D, dres, B>>

-----------------------------------------------------------------------------
(* Bounds of the model *)

\* the ItemsSketch under test is created with this K
KA == 9
\* Update is offered while the sketch holds fewer than MaxN items
MaxN == 10
\* Merge is offered MaxMerges times between two Resets
MaxMerges == 1
\* the queries are made on sketches of at most MaxQN items
MaxQN == 3
\* the serialized sketches are fed at most MaxSerN items before a merge
MaxSerN == 3
\* the DoubleSketch is created with this K
KD == 8
\* the two sketches that share pointers are fed at most MaxAliasN items each
MaxAliasN == 3

\* a long stream of one item is fed up to MaxDeepN items
MaxDeepN == 28

\* the deepest level levelCapacity is computed for
MaxDepth == 12

\* the items Update is called with: "" and "A"
Items == {0, 1}
\* every item a sketch can meet: "", "A", "B", "C"
AllItems == {0, 1, 2, 3}

-----------------------------------------------------------------------------
(* Slices *)

At(s, i) == s[i + 1]

Put(s, i, v) == [s EXCEPT ![i + 1] = v]

Max(a, b) == IF a >= b THEN a ELSE b

Min(a, b) == IF a <= b THEN a ELSE b

\* make([]C, n): n zero values (the empty string)
MakeItems(n) == [i \in 1..n |-> 0]

MakeLevels(n) == [i \in 1..n |-> 0]

\* a nil *C
NoItem == -1

-----------------------------------------------------------------------------
(* The item operations: stringItemsSketchOp *)

lessFn(a, b) == a < b

\* internal.IsNil: a string is never nil
IsNil(item) == FALSE

\* sort.Slice(buf[start : start+length], lessFn): the slice aliases buf
\* a sort that leaves the slice as it is
sortSliceNot(buf, start, length) == buf

sortSlice(buf, start, length) ==
    LET sorted == SortSeq(SubSeq(buf, start + 1, start + length), lessFn)
    IN [i \in 1..Len(buf) |->
          IF i > start /\ i <= start + length THEN sorted[i - start] ELSE buf[i]]

-----------------------------------------------------------------------------
(* Level capacities *)

powersOfThree == <<1, 3, 9, 27, 81, 243, 729, 2187, 6561, 19683, 59049, 177147,
                   531441, 1594323, 4782969, 14348907, 43046721, 129140163,
                   387420489, 1162261467>>

Pow2(n) == 2 ^ n

intCapAuxAux(k, depth) ==
    LET twok == (k * 2) % 65536
        tmp == (twok * Pow2(depth)) \div At(powersOfThree, depth)
        result == (tmp + 1) \div 2
    IN IF result <= k THEN result ELSE k

intCapAux(k, depth) ==
    IF depth <= 30 THEN intCapAuxAux(k, depth)
    ELSE LET half == depth \div 2
             rest == depth - half
             tmp == intCapAuxAux(k, half)
         IN intCapAuxAux(tmp % 65536, rest)

levelCapacity(k, numLevels, level, m) ==
    LET depth == numLevels - level - 1
    IN Max(m, intCapAux(k, depth))

RECURSIVE computeTotalItemCapacityFrom(_, _, _, _)
computeTotalItemCapacityFrom(k, m, numLevels, level) ==
    IF level >= numLevels THEN 0
    ELSE levelCapacity(k, numLevels, level, m)
         + computeTotalItemCapacityFrom(k, m, numLevels, level + 1)

computeTotalItemCapacity(k, m, numLevels) ==
    computeTotalItemCapacityFrom(k, m, numLevels, 0)

\* the loop of findLevelToCompact from `level` on; it has no bound check, so
\* running off the levels array is an index-out-of-range panic: NoLevel
NoLevel == -1

RECURSIVE findLevelToCompactFrom(_, _, _, _, _)
findLevelToCompactFrom(k, m, numLevels, levels, level) ==
    IF level + 1 >= Len(levels) THEN NoLevel
    ELSE LET pop == At(levels, level + 1) - At(levels, level)
             capacity == levelCapacity(k, numLevels, level, m)
         IN IF pop >= capacity THEN level
            ELSE findLevelToCompactFrom(k, m, numLevels, levels, level + 1)

findLevelToCompact(k, m, numLevels, levels) ==
    findLevelToCompactFrom(k, m, numLevels, levels, 0)

-----------------------------------------------------------------------------
(* The ItemsSketch *)

DEFAULT_M == 8

MIN_K == 8

MAX_K == 65535

\* a nil *ItemsSketchSortedView is <<>>, a cached view v is <<v>>
NoView == <<>>

NewItemsSketch(k) ==
    [k |-> k, m |-> DEFAULT_M, minK |-> k, numLevels |-> 1,
     isLevelZeroSorted |-> FALSE, n |-> 0,
     levels |-> <<k, k>>, items |-> MakeItems(k),
     minItem |-> NoItem, maxItem |-> NoItem, sortedView |-> NoView]

IsEmpty(s) == s.n = 0

\* the end of the top level, not reduced by the start of level 0
GetNumRetainedFromZero(s) == At(s.levels, s.numLevels)

GetNumRetained(s) == At(s.levels, s.numLevels) - At(s.levels, 0)

IsEstimationMode(s) == s.numLevels > 1

getNumLevels(s) == Len(s.levels) - 1

GetTotalItemsArray(s) == IF s.n = 0 THEN MakeItems(s.k) ELSE s.items

\* for i := start+length-1; i >= start+halfLength; i-- { buf[i] = buf[j]; j -= 2 }
RECURSIVE halveUpLoop(_, _, _, _)
halveUpLoop(buf, i, j, lim) ==
    IF i < lim THEN buf
    ELSE halveUpLoop(Put(buf, i, At(buf, j)), i - 1, j - 2, lim)

randomlyHalveUpItems(buf, start, length) ==
    LET halfLength == length \div 2
        offset == 1
        j == (start + length) - 1 - offset
    IN halveUpLoop(buf, (start + length) - 1, j, start + halfLength)

\* for i := start; i < start+halfLength; i++ { buf[i] = buf[j]; j += 2 }
RECURSIVE halveDownLoop(_, _, _, _)
halveDownLoop(buf, i, j, lim) ==
    IF i >= lim THEN buf
    ELSE halveDownLoop(Put(buf, i, At(buf, j)), i + 1, j + 2, lim)

randomlyHalveDownItems(buf, start, length) ==
    LET halfLength == length \div 2
        offset == 1
        j == start + offset
    IN halveDownLoop(buf, start, j, start + halfLength)

\* the loop of mergeSortedItemsArrays; `shared` says that bufA and bufB are
\* the array bufC itself, so that reads see the writes made so far
RECURSIVE mergeLoop(_, _, _, _, _, _, _, _, _, _)
mergeLoop(bufA, bufB, bufC, a, b, c, limA, limB, limC, shared) ==
    IF c >= limC THEN bufC
    ELSE LET srcA == IF shared THEN bufC ELSE bufA
             srcB == IF shared THEN bufC ELSE bufB
         IN IF a = limA
            THEN mergeLoop(bufA, bufB, Put(bufC, c, At(srcB, b)),
                           a, b + 1, c + 1, limA, limB, limC, shared)
            ELSE IF b = limB
            THEN mergeLoop(bufA, bufB, Put(bufC, c, At(srcA, a)),
                           a + 1, b, c + 1, limA, limB, limC, shared)
            ELSE IF lessFn(At(srcA, a), At(srcB, b))
            THEN mergeLoop(bufA, bufB, Put(bufC, c, At(srcA, a)),
                           a + 1, b, c + 1, limA, limB, limC, shared)
            ELSE mergeLoop(bufA, bufB, Put(bufC, c, At(srcB, b)),
                           a, b + 1, c + 1, limA, limB, limC, shared)

mergeSortedItemsArrays(bufA, startA, lenA, bufB, startB, lenB, bufC, startC, shared) ==
    mergeLoop(bufA, bufB, bufC, startA, startB, startC,
              startA + lenA, startB + lenB, startC + lenA + lenB, shared)

\* addToLevels with the loop stopping one level early
addToLevelsShort(levels, upto, delta) ==
    [i \in 1..Len(levels) |-> IF i - 1 < upto THEN levels[i] + delta ELSE levels[i]]

\* for level := 0; level <= myNewNumLevels-1; level++ { levels[level] += delta }
addToLevels(levels, upto, delta) ==
    [i \in 1..Len(levels) |-> IF i - 1 <= upto THEN levels[i] + delta ELSE levels[i]]

\* a new top level that brings K slots, not the capacity of the new level 0
addEmptyTopLevelOfCapacityK(s) ==
    LET myCurLevelsArr == s.levels
        myCurNumLevels == s.numLevels
        myCurTotalItemsCapacity == At(myCurLevelsArr, myCurNumLevels)
        myCurItemsArr == GetTotalItemsArray(s)
        deltaItemsCap == s.k
        myNewTotalItemsCapacity == myCurTotalItemsCapacity + deltaItemsCap
        growLevelsArr == Len(myCurLevelsArr) < myCurNumLevels + 2
        grown == IF growLevelsArr
                 THEN [i \in 1..(myCurNumLevels + 2) |->
                         IF i <= Len(myCurLevelsArr) THEN myCurLevelsArr[i] ELSE 0]
                 ELSE myCurLevelsArr
        myNewNumLevels == IF growLevelsArr THEN myCurNumLevels + 1 ELSE myCurNumLevels
        myNewLevelsArr == Put(addToLevels(grown, myNewNumLevels - 1, deltaItemsCap),
                              myNewNumLevels, myNewTotalItemsCapacity)
        myNewItemsArr == [i \in 1..myNewTotalItemsCapacity |->
                            IF i > deltaItemsCap /\ i - deltaItemsCap <= myCurTotalItemsCapacity
                            THEN myCurItemsArr[i - deltaItemsCap] ELSE 0]
    IN [s EXCEPT !.numLevels = myNewNumLevels, !.levels = myNewLevelsArr,
                 !.items = myNewItemsArr]

addEmptyTopLevelToCompletelyFullSketch(s) ==
    LET myCurLevelsArr == s.levels
        myCurNumLevels == s.numLevels
        myCurTotalItemsCapacity == At(myCurLevelsArr, myCurNumLevels)
        myCurItemsArr == GetTotalItemsArray(s)
        deltaItemsCap == levelCapacity(s.k, myCurNumLevels + 1, 0, s.m)
        myNewTotalItemsCapacity == myCurTotalItemsCapacity + deltaItemsCap
        growLevelsArr == Len(myCurLevelsArr) < myCurNumLevels + 2
        grown == IF growLevelsArr
                 THEN [i \in 1..(myCurNumLevels + 2) |->
                         IF i <= Len(myCurLevelsArr) THEN myCurLevelsArr[i] ELSE 0]
                 ELSE myCurLevelsArr
        myNewNumLevels == IF growLevelsArr THEN myCurNumLevels + 1 ELSE myCurNumLevels
        myNewLevelsArr == Put(addToLevels(grown, myNewNumLevels - 1, deltaItemsCap),
                              myNewNumLevels, myNewTotalItemsCapacity)
        myNewItemsArr == [i \in 1..myNewTotalItemsCapacity |->
                            IF i > deltaItemsCap /\ i - deltaItemsCap <= myCurTotalItemsCapacity
                            THEN myCurItemsArr[i - deltaItemsCap] ELSE 0]
    IN [s EXCEPT !.numLevels = myNewNumLevels, !.levels = myNewLevelsArr,
                 !.items = myNewItemsArr]

\* for i := amount; i > 0; i-- { items[base+half+i-1] = items[base+i-1] }
RECURSIVE shiftUpLoop(_, _, _, _)
shiftUpLoop(buf, base, half, i) ==
    IF i <= 0 THEN buf
    ELSE shiftUpLoop(Put(buf, base + half + i - 1, At(buf, base + i - 1)),
                     base, half, i - 1)

\* compressWhileUpdatingSketch after the top level was added where needed
compactGrown(s, level) ==
    LET myLevelsArr == s.levels
        rawBeg == At(myLevelsArr, level)
        rawEnd == At(myLevelsArr, level + 1)
        popAbove == At(myLevelsArr, level + 2) - rawEnd
        rawPop == rawEnd - rawBeg
        oddPop == rawPop % 2 = 1
        adjBeg == IF oddPop THEN rawBeg + 1 ELSE rawBeg
        adjPop == IF oddPop THEN rawPop - 1 ELSE rawPop
        halfAdjPop == adjPop \div 2
        items0 == GetTotalItemsArray(s)
        items1 == IF level = 0 THEN sortSlice(items0, adjBeg, adjPop) ELSE items0
        items2 == IF popAbove = 0
                  THEN randomlyHalveUpItems(items1, adjBeg, adjPop)
                  ELSE LET halved == randomlyHalveDownItems(items1, adjBeg, adjPop)
                       IN mergeSortedItemsArrays(halved, adjBeg, halfAdjPop,
                                                 halved, rawEnd, popAbove,
                                                 halved, adjBeg + halfAdjPop, TRUE)
        levels1 == Put(myLevelsArr, level + 1, At(myLevelsArr, level + 1) - halfAdjPop)
        levels2 == IF oddPop
                   THEN Put(levels1, level, At(levels1, level + 1) - 1)
                   ELSE Put(levels1, level, At(levels1, level + 1))
        items3 == IF oddPop
                  THEN Put(items2, At(levels2, level), At(items2, rawBeg))
                  ELSE items2
        items4 == IF level > 0
                  THEN shiftUpLoop(items3, At(levels2, 0), halfAdjPop,
                                   rawBeg - At(levels2, 0))
                  ELSE items3
        levels3 == addToLevels(levels2, level - 1, halfAdjPop)
    IN [s EXCEPT !.levels = levels3, !.items = items4]

\* compressWhileUpdatingSketch once the level to compact is known
compactLevel(s, level) ==
    compactGrown(IF level = s.numLevels - 1
                 THEN addEmptyTopLevelToCompletelyFullSketch(s) ELSE s,
                 level)

compressWhileUpdatingSketch(s) ==
    compactLevel(s, findLevelToCompact(s.k, s.m, s.numLevels, s.levels))

\* updateMinMax that sets the maximum of an empty sketch only
updateMinOnly(s, item) ==
    IF IsEmpty(s)
    THEN [s EXCEPT !.minItem = item, !.maxItem = item]
    ELSE [s EXCEPT !.minItem = IF lessFn(item, s.minItem) THEN item ELSE @]

\* updateItem: the minimum and the maximum
updateMinMax(s, item) ==
    IF IsEmpty(s)
    THEN [s EXCEPT !.minItem = item, !.maxItem = item]
    ELSE [s EXCEPT !.minItem = IF lessFn(item, s.minItem) THEN item ELSE @,
                   !.maxItem = IF lessFn(s.maxItem, item) THEN item ELSE @]

\* updateItem: if level0space == 0 { s.compressWhileUpdatingSketch() }
makeRoom(s) ==
    IF At(s.levels, 0) = 0 THEN compressWhileUpdatingSketch(s) ELSE s

\* updateItem: the item goes below level 0
\* an update that takes the slot below level 0 but does not write the item
insertItemUnwritten(s, item) ==
    [s EXCEPT !.n = @ + 1, !.isLevelZeroSorted = FALSE,
              !.levels = Put(@, 0, At(s.levels, 0) - 1)]

insertItem(s, item) ==
    [s EXCEPT !.n = @ + 1, !.isLevelZeroSorted = FALSE,
              !.levels = Put(@, 0, At(s.levels, 0) - 1),
              !.items = Put(@, At(s.levels, 0) - 1, item)]

updateItem(s, item) ==
    IF IsNil(item) THEN s
    ELSE insertItem(makeRoom(updateMinMax(s, item)), item)

\* Update that keeps the cached sorted view
UpdateKeepingView(s, item) == updateItem(s, item)

Update(s, item) == [updateItem(s, item) EXCEPT !.sortedView = NoView]

Reset(s) ==
    [s EXCEPT !.n = 0, !.isLevelZeroSorted = FALSE, !.numLevels = 1,
              !.levels = <<s.k, s.k>>, !.minItem = NoItem, !.maxItem = NoItem,
              !.items = MakeItems(s.k), !.sortedView = NoView]

-----------------------------------------------------------------------------
(* Merge *)

currentLevelSizeItems(level, numLevels, levels) ==
    IF level >= numLevels THEN 0 ELSE At(levels, level + 1) - At(levels, level)

getNumRetainedAboveLevelZero(numLevels, levels) ==
    At(levels, numLevels) - At(levels, 1)

RECURSIVE floorLog2(_)
floorLog2(n) == IF n <= 1 THEN 0 ELSE 1 + floorLog2(n \div 2)

ubOnNumLevels(n) == 1 + floorLog2(n)

\* for i := 0; i < n; i++ { dst[dstPos+i] = src[srcPos+i] }
RECURSIVE copyLoop(_, _, _, _, _, _, _)
copyLoop(dst, dstPos, src, srcPos, i, n, shared) ==
    IF i >= n THEN dst
    ELSE copyLoop(Put(dst, dstPos + i, At(IF shared THEN dst ELSE src, srcPos + i)),
                  dstPos, src, srcPos, i + 1, n, shared)

\* the loop of populateItemWorkArrays over the levels above level 0
RECURSIVE populateLevels(_, _, _, _, _, _, _, _, _, _)
populateLevels(workbuf, worklevels, lvl, provisionalNumLevels, myCurNumLevels, myCurLevelsArr, myCurItemsArr, otherNumLevels, otherLevelsArr, otherItemsArr) ==
    IF lvl >= provisionalNumLevels THEN [buf |-> workbuf, levels |-> worklevels]
    ELSE LET selfPop == currentLevelSizeItems(lvl, myCurNumLevels, myCurLevelsArr)
             otherPop == currentLevelSizeItems(lvl, otherNumLevels, otherLevelsArr)
             wl == Put(worklevels, lvl + 1, At(worklevels, lvl) + selfPop + otherPop)
             wb == IF selfPop > 0 /\ otherPop = 0
                   THEN copyLoop(workbuf, At(wl, lvl), myCurItemsArr,
                                 At(myCurLevelsArr, lvl), 0, selfPop, FALSE)
                   ELSE IF selfPop = 0 /\ otherPop > 0
                   THEN copyLoop(workbuf, At(wl, lvl), otherItemsArr,
                                 At(otherLevelsArr, lvl), 0, otherPop, FALSE)
                   ELSE IF selfPop > 0 /\ otherPop > 0
                   THEN mergeSortedItemsArrays(
                            myCurItemsArr, At(myCurLevelsArr, lvl), selfPop,
                            otherItemsArr, At(otherLevelsArr, lvl), otherPop,
                            workbuf, At(wl, lvl), FALSE)
                   ELSE workbuf
         IN populateLevels(wb, wl, lvl + 1, provisionalNumLevels,
                           myCurNumLevels, myCurLevelsArr, myCurItemsArr,
                           otherNumLevels, otherLevelsArr, otherItemsArr)

populateItemWorkArrays(workbuf, worklevels, provisionalNumLevels, myCurNumLevels, myCurLevelsArr, myCurItemsArr, otherNumLevels, otherLevelsArr, otherItemsArr) ==
    LET wl0 == Put(worklevels, 0, 0)
        selfPopZero == currentLevelSizeItems(0, myCurNumLevels, myCurLevelsArr)
        wb0 == copyLoop(workbuf, At(wl0, 0), myCurItemsArr, At(myCurLevelsArr, 0),
                        0, selfPopZero, FALSE)
        wl1 == Put(wl0, 1, At(wl0, 0) + selfPopZero)
    IN populateLevels(wb0, wl1, 1, provisionalNumLevels,
                      myCurNumLevels, myCurLevelsArr, myCurItemsArr,
                      otherNumLevels, otherLevelsArr, otherItemsArr)

\* one pass of the loop of generalItemsCompress over curLevel; inBuf and
\* outBuf are the same array (the caller passes workbuf for both)
RECURSIVE generalCompressLoop(_, _, _, _, _, _, _, _, _, _)
generalCompressLoop(k, m, numLevels, buf, inLevels0, outLevels, isLevelZeroSorted, currentItemCount, targetItemCount, curLevel0) ==
    LET curLevel == curLevel0 + 1
        inLevels == IF curLevel = numLevels - 1
                    THEN Put(inLevels0, curLevel + 2, At(inLevels0, curLevel + 1))
                    ELSE inLevels0
        rawBeg == At(inLevels, curLevel)
        rawLim == At(inLevels, curLevel + 1)
        rawPop == rawLim - rawBeg
        keep == (currentItemCount < targetItemCount)
                   \/ (rawPop < levelCapacity(k, numLevels, curLevel, m))
        popAbove == At(inLevels, curLevel + 2) - rawLim
        oddPop == rawPop % 2 = 1
        adjBeg == IF oddPop THEN rawBeg + 1 ELSE rawBeg
        adjPop == IF oddPop THEN rawPop - 1 ELSE rawPop
        halfAdjPop == adjPop \div 2
        \* the level is copied through
        keptBuf == copyLoop(buf, At(outLevels, curLevel), buf, rawBeg, 0, rawPop, TRUE)
        keptOut == Put(outLevels, curLevel + 1, At(outLevels, curLevel) + rawPop)
        \* the level is compacted
        buf1 == IF oddPop THEN Put(buf, At(outLevels, curLevel), At(buf, rawBeg)) ELSE buf
        cmpOut == IF oddPop
                  THEN Put(outLevels, curLevel + 1, At(outLevels, curLevel) + 1)
                  ELSE Put(outLevels, curLevel + 1, At(outLevels, curLevel))
        buf2 == IF curLevel = 0 /\ ~isLevelZeroSorted
                THEN sortSlice(buf1, adjBeg, adjPop) ELSE buf1
        buf3 == IF popAbove = 0
                THEN randomlyHalveUpItems(buf2, adjBeg, adjPop)
                ELSE LET halved == randomlyHalveDownItems(buf2, adjBeg, adjPop)
                     IN mergeSortedItemsArrays(halved, adjBeg, halfAdjPop,
                                               halved, rawLim, popAbove,
                                               halved, adjBeg + halfAdjPop, TRUE)
        cmpIn == Put(inLevels, curLevel + 1, At(inLevels, curLevel + 1) - halfAdjPop)
        grew == curLevel = numLevels - 1
        \* the state after this pass
        nNumLevels == IF ~keep /\ grew THEN numLevels + 1 ELSE numLevels
        nTarget == IF ~keep /\ grew
                   THEN targetItemCount + levelCapacity(k, numLevels + 1, 0, m)
                   ELSE targetItemCount
        nCount == IF keep THEN currentItemCount ELSE currentItemCount - halfAdjPop
        nBuf == IF keep THEN keptBuf ELSE buf3
        nIn == IF keep THEN inLevels ELSE cmpIn
        nOut == IF keep THEN keptOut ELSE cmpOut
    IN IF curLevel = nNumLevels - 1
       THEN [numLevels |-> nNumLevels, targetItemCount |-> nTarget,
             currentItemCount |-> nCount, buf |-> nBuf, outLevels |-> nOut]
       ELSE generalCompressLoop(k, m, nNumLevels, nBuf, nIn, nOut, isLevelZeroSorted,
                                nCount, nTarget, curLevel)

\* a compression that compacts no level
generalItemsCompressNothing(k, m, numLevelsIn, inBuf, inLevels, outLevels, isLevelZeroSorted) ==
    [numLevels |-> numLevelsIn,
     targetItemCount |-> computeTotalItemCapacity(k, m, numLevelsIn),
     currentItemCount |-> At(inLevels, numLevelsIn) - At(inLevels, 0),
     buf |-> inBuf, outLevels |-> inLevels]

generalItemsCompress(k, m, numLevelsIn, inBuf, inLevels, outLevels, isLevelZeroSorted) ==
    generalCompressLoop(k, m, numLevelsIn, inBuf, inLevels, Put(outLevels, 0, 0),
                        isLevelZeroSorted,
                        At(inLevels, numLevelsIn) - At(inLevels, 0),
                        computeTotalItemCapacity(k, m, numLevelsIn), -1)

\* for i := other.levels[0]; i < other.levels[1]; i++ { s.updateItem(otherItems[i]) }
RECURSIVE updateFromLevelZero(_, _, _, _)
updateFromLevelZero(s, otherItemsArr, i, lim) ==
    IF i >= lim THEN s
    ELSE updateFromLevelZero(updateItem(s, At(otherItemsArr, i)), otherItemsArr, i + 1, lim)

\* mergeItemsSketch, `if otherNumLevels > 1`: the new items and levels arrays
\* from the result of generalItemsCompress
\* a merge that takes the new number of levels but keeps the arrays of s
finalizeMergeKeepingArrays(s, result) ==
    [numLevels |-> result.numLevels, levels |-> s.levels, items |-> GetTotalItemsArray(s)]

finalizeMerge(s, result) ==
    LET myCurLevelsArr == s.levels
        myCurItemsArr == GetTotalItemsArray(s)
        targetItemCount == result.targetItemCount
        curItemCount == result.currentItemCount
        outlevels == result.outLevels
        myNewNumLevels == result.numLevels
        base == IF targetItemCount = Len(myCurItemsArr)
                THEN myCurItemsArr ELSE MakeItems(targetItemCount)
        freeSpaceAtBottom == targetItemCount - curItemCount
        myNewItemsArr == copyLoop(base, freeSpaceAtBottom, result.buf,
                                  At(outlevels, 0), 0, curItemCount, FALSE)
        theShift == freeSpaceAtBottom - At(outlevels, 0)
        finalLevelsArrLen == IF Len(myCurLevelsArr) < myNewNumLevels + 1
                             THEN myNewNumLevels + 1 ELSE Len(myCurLevelsArr)
        myNewLevelsArr == [i \in 1..finalLevelsArrLen |->
                             IF i - 1 < myNewNumLevels + 1
                             THEN outlevels[i] + theShift ELSE 0]
    IN [numLevels |-> myNewNumLevels, levels |-> myNewLevelsArr, items |-> myNewItemsArr]

\* mergeItemsSketch, `if otherNumLevels > 1`: generalItemsCompress on the work
\* arrays, workbuf being the input and the output
compressWork(s, provisionalNumLevels, work, ub) ==
    generalItemsCompress(s.k, s.m, provisionalNumLevels, work.buf, work.levels,
                         MakeLevels(ub + 2), s.isLevelZeroSorted)

\* mergeItemsSketch, `if otherNumLevels > 1`; s is the sketch after the level-0
\* updates
mergeHigherLevels(s, other, finalN) ==
    finalizeMerge(s,
        compressWork(s, Max(s.numLevels, other.numLevels),
            populateItemWorkArrays(
                MakeItems(GetNumRetained(s)
                    + getNumRetainedAboveLevelZero(other.numLevels, other.levels)),
                MakeLevels(ubOnNumLevels(finalN) + 2),
                Max(s.numLevels, other.numLevels),
                s.numLevels, s.levels, GetTotalItemsArray(s),
                other.numLevels, other.levels, GetTotalItemsArray(other)),
            ubOnNumLevels(finalN)))

\* mergedMinK that does not look at the mode of other
mergedMinKAnyMode(myMinK, other) == Min(myMinK, other.minK)

\* mergedMinItem that takes the minimum of other
mergedMinItemOfOther(myEmpty, myMin, other) == other.minItem

\* if other.IsEstimationMode() { s.minK = min(myMinK, other.minK) }
mergedMinK(myMinK, other) ==
    IF IsEstimationMode(other) THEN Min(myMinK, other.minK) ELSE myMinK

mergedMinItem(myEmpty, myMin, other) ==
    IF myEmpty THEN other.minItem
    ELSE IF lessFn(myMin, other.minItem) THEN myMin ELSE other.minItem

mergedMaxItem(myEmpty, myMax, other) ==
    IF myEmpty THEN other.maxItem
    ELSE IF lessFn(other.maxItem, myMax) THEN myMax ELSE other.maxItem

\* mergeItemsSketch, from "Update Preamble" on: s0 is the sketch before the
\* merge, s1 the sketch after the level-0 updates, new the merged arrays
finishMerge(s0, s1, other, new) ==
    [s1 EXCEPT
       !.n = s0.n + other.n,
       !.minK = mergedMinK(s0.minK, other),
       !.numLevels = new.numLevels,
       !.levels = new.levels,
       !.items = new.items,
       !.minItem = mergedMinItem(IsEmpty(s0), s0.minItem, other),
       !.maxItem = mergedMaxItem(IsEmpty(s0), s0.maxItem, other)]

\* mergeItemsSketch after the level-0 updates, which gave s1
mergeLevels(s0, s1, other) ==
    finishMerge(s0, s1, other,
        IF other.numLevels > 1
        THEN mergeHigherLevels(s1, other, s0.n + other.n)
        ELSE [numLevels |-> s1.numLevels, levels |-> s1.levels,
              items |-> GetTotalItemsArray(s1)])

mergeItemsSketch(s, other) ==
    IF IsEmpty(other) THEN s
    ELSE mergeLevels(s, updateFromLevelZero(s, GetTotalItemsArray(other),
                                            At(other.levels, 0), At(other.levels, 1)),
                     other)

\* Merge without the test for an empty other sketch
MergeUnguarded(s, other) ==
    [mergeLevels(s, updateFromLevelZero(s, GetTotalItemsArray(other),
                                        At(other.levels, 0), At(other.levels, 1)),
                 other) EXCEPT !.sortedView = NoView]

Merge(s, other) ==
    IF IsEmpty(other) THEN s
    ELSE [mergeItemsSketch(s, other) EXCEPT !.sortedView = NoView]

-----------------------------------------------------------------------------
(* The sorted view *)

\* the level of the buffer position pos
RECURSIVE levelOf(_, _, _)
levelOf(s, pos, l) ==
    IF l >= s.numLevels - 1 \/ pos < At(s.levels, l + 1) THEN l
    ELSE levelOf(s, pos, l + 1)

RECURSIVE cumulate(_, _, _)
cumulate(weights, i, subtotal) ==
    IF i > Len(weights) THEN << >>
    ELSE <<subtotal + weights[i]>> \o cumulate(weights, i + 1, subtotal + weights[i])

lessPair(a, b) == lessFn(a.item, b.item)

\* Q: the retained items in comparator order; CW: their cumulative weights,
\* an item of level l weighing 2^l
newItemsSketchSortedView(s) ==
    LET numRetained == GetNumRetained(s)
        pairs == [i \in 1..numRetained |->
                    [item |-> At(s.items, At(s.levels, 0) + i - 1),
                     weight |-> Pow2(levelOf(s, At(s.levels, 0) + i - 1, 0))]]
        sorted == SortSeq(pairs, lessPair)
    IN [quantiles |-> [i \in 1..numRetained |-> sorted[i].item],
        cumWeights |-> cumulate([i \in 1..numRetained |-> sorted[i].weight], 1, 0),
        totalN |-> s.n]

\* the rank is the fraction num / den
viewGetRank(v, item, inclusive) ==
    LET qualifies == {i \in 1..Len(v.quantiles) :
                        IF inclusive THEN ~lessFn(item, v.quantiles[i])
                        ELSE lessFn(v.quantiles[i], item)}
        top == CHOOSE i \in qualifies : \A j \in qualifies : j <= i
    IN [num |-> IF qualifies = {} THEN 0 ELSE v.cumWeights[top], den |-> v.totalN]

\* the rank is the fraction rnum / rden, 0 <= rnum <= rden
viewGetQuantile(v, rnum, rden, inclusive) ==
    LET scaled == rnum * v.totalN
        floorRank == scaled \div rden
        ceilRank == (scaled + rden - 1) \div rden
        found == {i \in 1..Len(v.cumWeights) :
                    IF inclusive THEN v.cumWeights[i] >= ceilRank
                    ELSE v.cumWeights[i] > floorRank}
        first == CHOOSE i \in found : \A j \in found : i <= j
    IN IF found = {} THEN v.quantiles[Len(v.quantiles)] ELSE v.quantiles[first]

setupSortedView(s) ==
    IF s.sortedView = NoView
    THEN [s EXCEPT !.sortedView = <<newItemsSketchSortedView(s)>>]
    ELSE s

\* GetRank and GetQuantile with the opposite search criterion
GetRankOpposite(s, item, inclusive) ==
    IF IsEmpty(s) THEN [err |-> TRUE, rank |-> [num |-> 0, den |-> 1], s |-> s]
    ELSE [err |-> FALSE,
          rank |-> viewGetRank(setupSortedView(s).sortedView[1], item, ~inclusive),
          s |-> setupSortedView(s)]

GetQuantileOpposite(s, rnum, rden, inclusive) ==
    IF IsEmpty(s) THEN [err |-> TRUE, quantile |-> 0, s |-> s]
    ELSE [err |-> FALSE,
          quantile |-> viewGetQuantile(setupSortedView(s).sortedView[1], rnum, rden,
                                       ~inclusive),
          s |-> setupSortedView(s)]

\* the getters return the sketch too, for the view they may have cached
GetSortedView(s) ==
    IF IsEmpty(s) THEN [err |-> TRUE, s |-> s]
    ELSE [err |-> FALSE, s |-> setupSortedView(s)]

GetRank(s, item, inclusive) ==
    IF IsEmpty(s) THEN [err |-> TRUE, rank |-> [num |-> 0, den |-> 1], s |-> s]
    ELSE LET s1 == setupSortedView(s)
         IN [err |-> FALSE, rank |-> viewGetRank(s1.sortedView[1], item, inclusive),
             s |-> s1]

GetQuantile(s, rnum, rden, inclusive) ==
    IF IsEmpty(s) THEN [err |-> TRUE, quantile |-> 0, s |-> s]
    ELSE IF rnum < 0 \/ rnum > rden THEN [err |-> TRUE, quantile |-> 0, s |-> s]
    ELSE LET s1 == setupSortedView(s)
         IN [err |-> FALSE,
             quantile |-> viewGetQuantile(s1.sortedView[1], rnum, rden, inclusive),
             s |-> s1]

\* ItemsSketchSortedView.GetCDF: the ranks of the split points, which must be
\* strictly ascending, and 1.0; the buckets are numerators over totalN
viewGetCDF(v, splitPoints, inclusive) ==
    IF \E j \in 1..(Len(splitPoints) - 1) : ~lessFn(splitPoints[j], splitPoints[j + 1])
    THEN [err |-> TRUE, buckets |-> << >>]
    ELSE [err |-> FALSE,
          buckets |-> [i \in 1..(Len(splitPoints) + 1) |->
                          IF i <= Len(splitPoints)
                          THEN viewGetRank(v, splitPoints[i], inclusive).num
                          ELSE v.totalN]]

\* ItemsSketchSortedView.GetPMF: the differences of GetCDF
viewGetPMF(v, splitPoints, inclusive) ==
    LET cdf == viewGetCDF(v, splitPoints, inclusive)
    IN IF cdf.err THEN cdf
       ELSE [err |-> FALSE,
             buckets |-> [i \in 1..Len(cdf.buckets) |->
                             IF i = 1 THEN cdf.buckets[1]
                             ELSE cdf.buckets[i] - cdf.buckets[i - 1]]]

\* GetMinItem that answers for an empty sketch too
GetMinItemOfAny(s) == [err |-> FALSE, item |-> s.minItem]

\* on an empty sketch the item returned is identity(), the empty string
GetMinItem(s) ==
    IF IsEmpty(s) THEN [err |-> TRUE, item |-> 0] ELSE [err |-> FALSE, item |-> s.minItem]

GetMaxItem(s) ==
    IF IsEmpty(s) THEN [err |-> TRUE, item |-> 0] ELSE [err |-> FALSE, item |-> s.maxItem]

GetPMF(s, splitPoints, inclusive) ==
    IF IsEmpty(s) THEN [err |-> TRUE, buckets |-> << >>, s |-> s]
    ELSE [err |-> viewGetPMF(setupSortedView(s).sortedView[1], splitPoints, inclusive).err,
          buckets |-> viewGetPMF(setupSortedView(s).sortedView[1], splitPoints,
                                 inclusive).buckets,
          s |-> setupSortedView(s)]

GetCDF(s, splitPoints, inclusive) ==
    IF IsEmpty(s) THEN [err |-> TRUE, buckets |-> << >>, s |-> s]
    ELSE [err |-> viewGetCDF(setupSortedView(s).sortedView[1], splitPoints, inclusive).err,
          buckets |-> viewGetCDF(setupSortedView(s).sortedView[1], splitPoints,
                                 inclusive).buckets,
          s |-> setupSortedView(s)]

\* 1e6 * 2.446 / minK^0.9433 (pmf) and 1e6 * 2.296 / minK^0.9723, rounded
getNormalizedRankError(minK, pmf) ==
    CASE minK = 8 -> IF pmf THEN 344010 ELSE 304017
      [] minK = 9 -> IF pmf THEN 307836 ELSE 271120
      [] minK = 10 -> IF pmf THEN 278713 ELSE 244721
      [] minK = 11 -> IF pmf THEN 254748 ELSE 223062
      [] minK = 12 -> IF pmf THEN 234674 ELSE 204967

GetNormalizedRankError(s, pmf) == getNormalizedRankError(s.minK, pmf)

-----------------------------------------------------------------------------
(* Serialization: byte slices are sequences of 0..255 *)

\* []byte(item): "" has no bytes, "A", "B", ... have the one byte 65, 66, ...
utf8(item) == IF item = 0 THEN << >> ELSE <<64 + item>>

\* string(utf8Bytes)
fromUtf8(bytes) == IF Len(bytes) = 0 THEN 0 ELSE bytes[1] - 64

PutUint16(v) == <<v % 256, (v \div 256) % 256>>

PutUint32(v) ==
    <<v % 256, (v \div 256) % 256, (v \div 65536) % 256, (v \div 16777216) % 256>>

PutUint64(v) == PutUint32(v) \o <<0, 0, 0, 0>>

Uint16(mem, offset) == At(mem, offset) + 256 * At(mem, offset + 1)

Uint32(mem, offset) ==
    At(mem, offset) + 256 * At(mem, offset + 1) + 65536 * At(mem, offset + 2)
        + 16777216 * At(mem, offset + 3)

\* copy(dst[at:], src)
copyBytes(dst, at, src) ==
    [i \in 1..Len(dst) |-> IF i > at /\ i - at <= Len(src) THEN src[i - at] ELSE dst[i]]

checkBounds(reqOff, reqLen, allocSize) ==
    reqOff >= 0 /\ reqLen >= 0 /\ reqOff + reqLen <= allocSize

sizeOf(item) == IF Len(utf8(item)) = 0 THEN 4 ELSE Len(utf8(item)) + 4

SerializeOneToSlice(item) ==
    IF Len(utf8(item)) = 0 THEN << >>
    ELSE PutUint32(Len(utf8(item))) \o utf8(item)

RECURSIVE serializeManyFrom(_, _)
serializeManyFrom(items, i) ==
    IF i > Len(items) THEN << >>
    ELSE PutUint32(Len(utf8(items[i]))) \o utf8(items[i]) \o serializeManyFrom(items, i + 1)

SerializeManyToSlice(items) ==
    IF Len(items) = 0 THEN << >> ELSE serializeManyFrom(items, 1)

RECURSIVE deserializeFrom(_, _, _, _)
deserializeFrom(mem, offset, i, numItems) ==
    IF i >= numItems THEN [err |-> FALSE, items |-> << >>]
    ELSE IF ~checkBounds(offset, 4, Len(mem)) THEN [err |-> TRUE, items |-> << >>]
    ELSE LET strLength == Uint32(mem, offset)
         IN IF ~checkBounds(offset + 4, strLength, Len(mem))
            THEN [err |-> TRUE, items |-> << >>]
            ELSE LET rest == deserializeFrom(mem, offset + 4 + strLength, i + 1, numItems)
                     item == fromUtf8(SubSeq(mem, offset + 5, offset + 4 + strLength))
                 IN IF rest.err THEN rest
                    ELSE [err |-> FALSE, items |-> <<item>> \o rest.items]

DeserializeFromSlice(mem, offsetBytes, numItems) ==
    IF numItems <= 0 THEN [err |-> FALSE, items |-> << >>]
    ELSE deserializeFrom(mem, offsetBytes, 0, numItems)

getSingleItem(s) == At(s.items, s.k - 1)

getRetainedItemsArray(s) ==
    [i \in 1..GetNumRetained(s) |-> At(s.items, At(s.levels, 0) + i - 1)]

getRetainedItemsByteArr(s) == SerializeManyToSlice(getRetainedItemsArray(s))

getMinMaxSizeBytes(s) == sizeOf(s.minItem) + sizeOf(s.maxItem)

getMinMaxByteArr(s) == SerializeOneToSlice(s.minItem) \o SerializeOneToSlice(s.maxItem)

currentSerializedSizeBytes(s) ==
    IF s.n = 0 THEN 8
    ELSE IF s.n = 1 THEN 8 + sizeOf(getSingleItem(s)) + 4
    ELSE 20 + (Len(s.levels) - 1) * 4 + getMinMaxSizeBytes(s)
            + Len(getRetainedItemsByteArr(s))

\* bit 0 empty, bit 1 level zero sorted, bit 2 single item
flagsOf(s) ==
    (IF IsEmpty(s) THEN 1 ELSE 0) + (IF s.isLevelZeroSorted THEN 2 ELSE 0)
        + (IF s.n = 1 THEN 4 ELSE 0)

\* for i := 0; i < numLevels; i++ { PutUint32(bytesOut[20+i*4:], lvlsArr[i]) }
RECURSIVE putLevels(_, _, _, _)
putLevels(bytesOut, lvlsArr, i, numLevels) ==
    IF i >= numLevels THEN bytesOut
    ELSE putLevels(copyBytes(bytesOut, 20 + i * 4, PutUint32(At(lvlsArr, i))),
                   lvlsArr, i + 1, numLevels)

ToSlice(s) ==
    LET preInts == IF s.n <= 1 THEN 2 ELSE 5
        serVer == IF s.n = 1 THEN 2 ELSE 1
        famId == 15
        bytes0 == [i \in 1..currentSerializedSizeBytes(s) |-> 0]
        bytes1 == copyBytes(bytes0, 0,
                      <<preInts, serVer, famId, flagsOf(s)>> \o PutUint16(s.k) \o <<s.m>>)
        minMaxByteArr == getMinMaxByteArr(s)
        itemsByteArr == getRetainedItemsByteArr(s)
        bytes2 == copyBytes(bytes1, 8,
                      PutUint64(s.n) \o PutUint16(s.minK) \o <<s.numLevels>>)
        bytes3 == putLevels(bytes2, s.levels, 0, s.numLevels)
        bytes4 == copyBytes(bytes3, 20 + s.numLevels * 4, minMaxByteArr)
    IN IF s.n = 0 THEN bytes1
       ELSE IF s.n = 1 THEN copyBytes(bytes1, 8, SerializeOneToSlice(getSingleItem(s)))
       ELSE copyBytes(bytes4, 20 + s.numLevels * 4 + Len(minMaxByteArr), itemsByteArr)

\* the preamble of a serialized sketch: the structure is "empty", "single" or
\* "full"; the top entry of levelsArr is the capacity, which is not serialized
newItemsSketchMemoryValidate(sl) ==
    LET flags == At(sl, 3)
        k == Uint16(sl, 4)
        m == At(sl, 6)
        structure == IF flags % 2 = 1 THEN "empty"
                     ELSE IF (flags \div 4) % 2 = 1 THEN "single" ELSE "full"
        numLevels == IF structure = "full" THEN At(sl, 18) ELSE 1
        top == computeTotalItemCapacity(k, m, numLevels)
    IN [sketchStructure |-> structure, k |-> k, m |-> m,
        n |-> IF structure = "full" THEN Uint32(sl, 8)
              ELSE IF structure = "single" THEN 1 ELSE 0,
        minK |-> IF structure = "full" THEN Uint16(sl, 16) ELSE k,
        numLevels |-> numLevels,
        level0SortedFlag |-> (flags \div 2) % 2 = 1,
        levelsArr |-> IF structure = "full"
                      THEN [i \in 1..(numLevels + 1) |->
                              IF i <= numLevels THEN Uint32(sl, 20 + (i - 1) * 4) ELSE top]
                      ELSE IF structure = "single" THEN <<k - 1, k>> ELSE <<k, k>>]

\* for i := 0; i < numRetained; i++ { items[i+levelsArr[0]] = deseRetItems[i] }
placeItems(items, from, retained) ==
    [i \in 1..Len(items) |->
        IF i > from /\ i - from <= Len(retained) THEN retained[i - from] ELSE items[i]]

NewItemsSketchFromSlice(sl) ==
    LET memVal == newItemsSketchMemoryValidate(sl)
        k == memVal.k
        levelsArr == memVal.levelsArr
        single == DeserializeFromSlice(sl, 8, 1)
        offset0 == 20 + memVal.numLevels * 4
        deserMinItems == DeserializeFromSlice(sl, offset0, 1)
        minItem == deserMinItems.items[1]
        offset1 == offset0 + sizeOf(minItem)
        deserMaxItems == DeserializeFromSlice(sl, offset1, 1)
        maxItem == deserMaxItems.items[1]
        offset2 == offset1 + sizeOf(maxItem)
        numRetained == At(levelsArr, memVal.numLevels) - At(levelsArr, 0)
        deseRetItems == DeserializeFromSlice(sl, offset2, numRetained)
        base == [k |-> k, m |-> memVal.m, minK |-> memVal.minK,
                 numLevels |-> memVal.numLevels,
                 isLevelZeroSorted |-> memVal.level0SortedFlag, n |-> memVal.n,
                 levels |-> levelsArr, items |-> MakeItems(k),
                 minItem |-> NoItem, maxItem |-> NoItem, sortedView |-> NoView]
    IN CASE memVal.sketchStructure = "empty" -> [err |-> "none", sk |-> base]
         [] memVal.sketchStructure = "single" ->
              IF single.err THEN [err |-> "error", sk |-> base]
              ELSE [err |-> "none",
                    sk |-> [base EXCEPT !.minItem = single.items[1],
                                        !.maxItem = single.items[1],
                                        !.items = Put(@, k - 1, single.items[1])]]
         [] OTHER ->
              \* &deserMinItems[0] is taken before err is looked at
              IF deserMinItems.err THEN [err |-> "panic", sk |-> base]
              ELSE IF deserMaxItems.err THEN [err |-> "panic", sk |-> base]
              ELSE IF deseRetItems.err THEN [err |-> "error", sk |-> base]
              ELSE [err |-> "none",
                    sk |-> [base EXCEPT
                              !.minItem = minItem, !.maxItem = maxItem,
                              !.items = placeItems(
                                            MakeItems(At(levelsArr, memVal.numLevels)),
                                            At(levelsArr, 0), deseRetItems.items)]]

-----------------------------------------------------------------------------
(* The sketches Merge is called with *)

\* for i := from; i <= upto; i++ { sk.Update(stream[i]) }
RECURSIVE UpdateAll(_, _, _, _)
UpdateAll(s, stream, from, upto) ==
    IF from > upto THEN s
    ELSE UpdateAll(Update(s, stream[from]), stream, from + 1, upto)

\* a stream of n items that cycles through "A", "B", ""
Cycle(n) == [i \in 1..n |-> i % 3]

CountOf(stream, x) == Cardinality({i \in 1..Len(stream) : stream[i] = x})

Counts(stream) == [x \in AllItems |-> CountOf(stream, x)]

\* K = MIN_K: empty, one item, exact mode
OtherEmpty == [sk |-> NewItemsSketch(MIN_K), cnt |-> Counts(<< >>)]

OtherSingle ==
    [sk |-> UpdateAll(NewItemsSketch(MIN_K), <<2>>, 1, 1), cnt |-> Counts(<<2>>)]

OtherExact ==
    [sk |-> UpdateAll(NewItemsSketch(MIN_K), <<1, 2>>, 1, 2), cnt |-> Counts(<<1, 2>>)]

\* K = MIN_K, estimation mode: MIN_K + 1, 2 * MIN_K + 5 and 3 * MIN_K + 5 updates
OtherLowK1 ==
    [sk |-> UpdateAll(NewItemsSketch(MIN_K), Cycle(MIN_K + 1), 1, MIN_K + 1),
     cnt |-> Counts(Cycle(MIN_K + 1))]

OtherLowK2 ==
    [sk |-> UpdateAll(OtherLowK1.sk, Cycle(2 * MIN_K + 5), MIN_K + 2, 2 * MIN_K + 5),
     cnt |-> Counts(Cycle(2 * MIN_K + 5))]

OtherLowK3 ==
    [sk |-> UpdateAll(OtherLowK2.sk, Cycle(3 * MIN_K + 5), 2 * MIN_K + 6, 3 * MIN_K + 5),
     cnt |-> Counts(Cycle(3 * MIN_K + 5))]

\* K = KA: exact mode and estimation mode
OtherSameKExact ==
    [sk |-> UpdateAll(NewItemsSketch(KA), <<0, 1>>, 1, 2), cnt |-> Counts(<<0, 1>>)]

OtherSameK ==
    [sk |-> UpdateAll(NewItemsSketch(KA), Cycle(KA + 1), 1, KA + 1),
     cnt |-> Counts(Cycle(KA + 1))]

Others ==
    {OtherEmpty, OtherSingle, OtherExact, OtherLowK1, OtherLowK2, OtherLowK3,
     OtherSameKExact, OtherSameK}

-----------------------------------------------------------------------------
(* The DoubleSketch.  A call returns the set of its possible outcomes        *)
(* [res, sk]: res is "ok", "error" (an error is returned) or "panic" (the    *)
(* call aborts), sk is the sketch it leaves behind.  The doubles are the     *)
(* naturals; NaN is a value of its own.                                      *)

NaN == -1

\* a test that takes no value for NaN
IsNaNNever(x) == FALSE

IsNaN(x) == x = NaN

mathMin(a, b) == IF IsNaN(a) \/ IsNaN(b) THEN NaN ELSE Min(a, b)

mathMax(a, b) == IF IsNaN(a) \/ IsNaN(b) THEN NaN ELSE Max(a, b)

checkK(k, m) == k >= m /\ k <= MAX_K

\* a test of M that accepts odd values
checkMAnyParity(m) == m >= 2 /\ m <= 8

checkM(m) == m >= 2 /\ m <= 8 /\ m % 2 = 0

NewKllDoubleSketch(k, m) ==
    [err |-> ~checkK(k, m) \/ ~checkM(m),
     sk |-> [readOnly |-> FALSE, levelsArr |-> <<k, k>>, k |-> k, m |-> m, n |-> 0,
             minK |-> k, isLevelZeroSorted |-> FALSE,
             minDoubleItem |-> NaN, maxDoubleItem |-> NaN,
             doubleItems |-> MakeItems(k), kllDoublesSV |-> NoView]]

getNumLevelsD(d) == Len(d.levelsArr) - 1

\* the capacity helpers of the DoubleSketch return an error next to the value
intCapAuxAuxD(k, depth) ==
    LET twok == k * 2
        tmp == (twok * Pow2(depth)) \div At(powersOfThree, depth)
        result == (tmp + 1) \div 2
    IN IF result > k THEN [err |-> TRUE, v |-> 0] ELSE [err |-> FALSE, v |-> result]

intCapAuxD(k, depth) ==
    IF depth <= 30 THEN intCapAuxAuxD(k, depth)
    ELSE LET half == depth \div 2
             rest == depth - half
             tmp == intCapAuxAuxD(k, half)
         IN IF tmp.err THEN tmp ELSE intCapAuxAuxD(tmp.v, rest)

levelCapacityD(k, numLevels, level, m) ==
    IF k > 536870912 \/ numLevels < 1 \/ numLevels > 61 \/ level < 0 \/ level >= numLevels
    THEN [err |-> TRUE, v |-> 0]
    ELSE LET v == intCapAuxD(k, numLevels - level - 1)
         IN IF v.err THEN v ELSE [err |-> FALSE, v |-> Max(m, v.v)]

RECURSIVE findLevelToCompactD(_, _, _, _, _)
findLevelToCompactD(k, m, numLevels, levels, level) ==
    IF level >= numLevels THEN [err |-> TRUE, v |-> 0]
    ELSE LET pop == At(levels, level + 1) - At(levels, level)
             capacity == levelCapacityD(k, numLevels, level, m)
         IN IF capacity.err THEN capacity
            ELSE IF pop >= capacity.v THEN [err |-> FALSE, v |-> level]
            ELSE findLevelToCompactD(k, m, numLevels, levels, level + 1)

addEmptyTopLevelToCompletelyFullSketchD(d) ==
    LET myCurLevelsArr == d.levelsArr
        myCurNumLevels == getNumLevelsD(d)
        myCurTotalItemsCapacity == At(myCurLevelsArr, myCurNumLevels)
        deltaItemsCap == levelCapacityD(d.k, myCurNumLevels + 1, 0, d.m)
        myNewTotalItemsCapacity == myCurTotalItemsCapacity + deltaItemsCap.v
        growLevelsArr == At(myCurLevelsArr, myCurNumLevels + 1) < myCurNumLevels + 2
        grown == IF growLevelsArr
                 THEN [i \in 1..(myCurNumLevels + 2) |->
                         IF i <= Len(myCurLevelsArr) THEN myCurLevelsArr[i] ELSE 0]
                 ELSE myCurLevelsArr
        myNewNumLevels == IF growLevelsArr THEN myCurNumLevels + 1 ELSE myCurNumLevels
        myNewLevelsArr == Put(addToLevels(grown, myNewNumLevels - 1, deltaItemsCap.v),
                              myNewNumLevels, myNewTotalItemsCapacity)
        myNewDoubleItemsArr ==
            [i \in 1..myNewTotalItemsCapacity |->
                IF i > deltaItemsCap.v /\ i - deltaItemsCap.v <= myCurTotalItemsCapacity
                THEN d.doubleItems[i - deltaItemsCap.v] ELSE 0]
    IN IF d.n = 0 THEN [res |-> "error", sk |-> d]
       ELSE IF Len(d.doubleItems) # myCurTotalItemsCapacity THEN [res |-> "error", sk |-> d]
       ELSE IF At(myCurLevelsArr, 0) # 0 THEN [res |-> "error", sk |-> d]
       ELSE IF deltaItemsCap.err THEN [res |-> "error", sk |-> d]
       \* myCurLevelsArr[myCurNumLevels+1] is read: an index past the array aborts
       ELSE IF myCurNumLevels + 1 >= Len(myCurLevelsArr) THEN [res |-> "panic", sk |-> d]
       ELSE [res |-> "ok",
             sk |-> [d EXCEPT !.levelsArr = myNewLevelsArr,
                              !.doubleItems = myNewDoubleItemsArr]]

\* for i := 0; i < amount; i++ { items[base+half+i] = items[base+i] }
RECURSIVE shiftUpLoopD(_, _, _, _, _)
shiftUpLoopD(buf, base, half, i, amount) ==
    IF i >= amount THEN buf
    ELSE shiftUpLoopD(Put(buf, base + half + i, At(buf, base + i)), base, half, i + 1, amount)

\* compressWhileUpdatingSketch from the halving on, for a level above 0;
\* offset is the value of rand.Intn(2)
compactLevelD(d, level, offset) ==
    LET myLevelsArr == d.levelsArr
        rawBeg == At(myLevelsArr, level)
        rawEnd == At(myLevelsArr, level + 1)
        popAbove == At(myLevelsArr, level + 2) - rawEnd
        rawPop == rawEnd - rawBeg
        oddPop == rawPop % 2 = 1
        adjBeg == IF oddPop THEN rawBeg + 1 ELSE rawBeg
        adjPop == IF oddPop THEN rawPop - 1 ELSE rawPop
        halfAdjPop == adjPop \div 2
        items1 == d.doubleItems
        items2 == IF popAbove = 0
                  THEN halveUpLoop(items1, (adjBeg + adjPop) - 1,
                                   (adjBeg + adjPop) - 1 - offset, adjBeg + halfAdjPop)
                  ELSE LET halved == halveDownLoop(items1, adjBeg, adjBeg + offset,
                                                   adjBeg + halfAdjPop)
                       IN mergeSortedItemsArrays(halved, adjBeg, halfAdjPop,
                                                 halved, rawEnd, popAbove,
                                                 halved, adjBeg + halfAdjPop, TRUE)
        levels1 == Put(myLevelsArr, level + 1, At(myLevelsArr, level + 1) - halfAdjPop)
        levels2 == IF oddPop
                   THEN Put(levels1, level, At(levels1, level + 1) - 1)
                   ELSE Put(levels1, level, At(levels1, level + 1))
        items3 == IF oddPop
                  THEN Put(items2, At(levels2, level), At(items2, rawBeg))
                  ELSE items2
        items4 == shiftUpLoopD(items3, At(levels2, 0), halfAdjPop, 0,
                               rawBeg - At(levels2, 0))
        levels3 == addToLevels(levels2, level - 1, halfAdjPop)
    IN [d EXCEPT !.levelsArr = levels3, !.doubleItems = items4]

compressWhileUpdatingSketchD(d) ==
    LET level == findLevelToCompactD(d.k, d.m, getNumLevelsD(d), d.levelsArr, 0)
        added == IF level.v = getNumLevelsD(d) - 1
                 THEN addEmptyTopLevelToCompletelyFullSketchD(d)
                 ELSE [res |-> "ok", sk |-> d]
    IN IF level.err THEN {[res |-> "error", sk |-> d]}
       ELSE IF added.res # "ok" THEN {added}
       \* level zero is not sorted: panic("implement me")
       ELSE IF level.v = 0 THEN {[res |-> "panic", sk |-> added.sk]}
       ELSE {[res |-> "ok", sk |-> compactLevelD(added.sk, level.v, offset)] :
                offset \in {0, 1}}

updateDouble(d, item) ==
    IF IsNaN(item) THEN {[res |-> "ok", sk |-> d]}
    ELSE LET mi == mathMin(d.minDoubleItem, item)
             \* the maximum is computed from GetMinItem, after the new minimum is set
             d1 == IF d.n = 0
                   THEN [d EXCEPT !.minDoubleItem = item, !.maxDoubleItem = item]
                   ELSE [d EXCEPT !.minDoubleItem = mi, !.maxDoubleItem = mathMax(mi, item)]
             compressed == IF At(d1.levelsArr, 0) = 0
                           THEN compressWhileUpdatingSketchD(d1)
                           ELSE {[res |-> "ok", sk |-> d1]}
         IN { IF c.res # "ok" THEN c
              ELSE LET nextPos == At(c.sk.levelsArr, 0) - 1
                   IN [res |-> "ok",
                       sk |-> [c.sk EXCEPT !.n = @ + 1, !.isLevelZeroSorted = FALSE,
                                           !.levelsArr = Put(@, 0, nextPos),
                                           !.doubleItems = Put(@, nextPos, item)]]
              : c \in compressed }

\* DoubleSketch.Update
UpdateD(d, value) ==
    IF d.readOnly THEN {[res |-> "error", sk |-> d]} ELSE updateDouble(d, value)

-----------------------------------------------------------------------------
(* The sorted view of the DoubleSketch (double_sketch_sorted_view.go).  A    *)
(* call returns [res, v]: res is "ok", "error" or "panic".                   *)

\* for j := 0; j < len(values)-1; j++ { if values[j] < values[j+1] { continue }; return error }
checkDoublesSplitPointsOrder(values) ==
    /\ ~(Len(values) = 1 /\ IsNaN(values[1]))
    /\ \A j \in 1..(Len(values) - 1) :
          ~IsNaN(values[j]) /\ ~IsNaN(values[j + 1]) /\ values[j] < values[j + 1]

\* newSubtotal := subtotal + array[i]; subtotal = array[i]; array[i] = newSubtotal
RECURSIVE convertToCumulativeLoop(_, _, _)
convertToCumulativeLoop(array, i, subtotal) ==
    IF i >= Len(array) THEN array
    ELSE convertToCumulativeLoop(Put(array, i, subtotal + At(array, i)), i + 1, At(array, i))

convertToCumulative(array) == convertToCumulativeLoop(array, 0, 0)

\* the second value convertToCumulative returns: subtotal after the loop, which
\* holds the last entry as it was before the call
convertToCumulativeTotal(array) == IF Len(array) = 0 THEN 0 ELSE array[Len(array)]

\* the weight populateFromSketch gives the position i of the view: 2^level
RECURSIVE weightAt(_, _, _, _, _)
weightAt(srcLevels, srcNumLevels, offset, i, srcLevel) ==
    IF srcLevel >= srcNumLevels THEN 0
    ELSE IF At(srcLevels, srcLevel) - offset <= i /\ i < At(srcLevels, srcLevel + 1) - offset
    THEN Pow2(srcLevel)
    ELSE weightAt(srcLevels, srcNumLevels, offset, i, srcLevel + 1)

\* populateFromSketch for a sketch of one level, which blockyTandemMergeSort
\* returns as it is (a DoubleSketch never gets a second level: the compaction
\* that would add it aborts).  quantiles is made and never filled; src is
\* the sketch's own array after copy(srcQuantiles, srcQuantiles[offset:...])
populateFromSketch(srcQuantiles, srcLevels, srcNumLevels, numQuantiles) ==
    [quantiles |-> MakeItems(numQuantiles),
     cumWeights |-> convertToCumulative(
                        [i \in 1..numQuantiles |->
                            weightAt(srcLevels, srcNumLevels, At(srcLevels, 0), i - 1, 0)]),
     src |-> [i \in 1..Len(srcQuantiles) |->
                 IF i <= numQuantiles THEN srcQuantiles[At(srcLevels, 0) + i]
                 ELSE srcQuantiles[i]]]

\* the view and the sketch, whose array is sorted and copied in place
newDoubleSketchSortedViewFromSketch(d) ==
    LET srcLevels == d.levelsArr
        srcNumLevels == getNumLevelsD(d)
        sorted == IF d.isLevelZeroSorted THEN d.doubleItems
                  ELSE sortSlice(d.doubleItems, At(srcLevels, 0),
                                 At(srcLevels, 1) - At(srcLevels, 0))
        numQuantiles == At(srcLevels, srcNumLevels) - At(srcLevels, 0)
        populated == populateFromSketch(sorted, srcLevels, srcNumLevels, numQuantiles)
    IN IF d.n = 0 THEN [res |-> "panic", sk |-> d]
       ELSE [res |-> "ok",
             sk |-> [d EXCEPT !.doubleItems = populated.src,
                              !.kllDoublesSV =
                                  <<[quantiles |-> populated.quantiles,
                                     cumWeights |-> populated.cumWeights,
                                     totalN |-> d.n,
                                     maxItem |-> d.maxDoubleItem,
                                     minItem |-> d.minDoubleItem]>>]]

refreshSortedView(d) ==
    IF d.kllDoublesSV = NoView THEN newDoubleSketchSortedViewFromSketch(d)
    ELSE [res |-> "ok", sk |-> d]

\* doubleSketchSortedView.getRank: panic("not implemented") on a view that is
\* not empty; v is the numerator of the rank over totalN
getRankSV(v, quantile, searchCriteria) ==
    IF v.totalN = 0 THEN [res |-> "error", v |-> 0]
    ELSE [res |-> "panic", v |-> 0]

\* for i := 0; i < leng-1; i++ { buckets[i], err = v.getRank(splitPoints[i], ...) }
RECURSIVE getCDFLoop(_, _, _, _, _)
getCDFLoop(v, splitPoints, searchCriteria, buckets, i) ==
    IF i >= Len(splitPoints) THEN [res |-> "ok", v |-> buckets]
    ELSE LET r == getRankSV(v, At(splitPoints, i), searchCriteria)
         IN IF r.res # "ok" THEN [res |-> r.res, v |-> << >>]
            ELSE getCDFLoop(v, splitPoints, searchCriteria, Put(buckets, i, r.v), i + 1)

\* the buckets are numerators over totalN: 1.0 is totalN
getCDFSV(v, splitPoints, searchCriteria) ==
    LET leng == Len(splitPoints) + 1
        ranks == getCDFLoop(v, splitPoints, searchCriteria, MakeItems(leng), 0)
    IN IF ~checkDoublesSplitPointsOrder(splitPoints) THEN [res |-> "error", v |-> << >>]
       ELSE IF ranks.res # "ok" THEN ranks
       ELSE [res |-> "ok", v |-> Put(ranks.v, leng - 1, v.totalN)]

\* for i := len(buckets); i > 1; i-- { buckets[i] -= buckets[i-1] }
RECURSIVE getPMFLoop(_, _)
getPMFLoop(buckets, i) ==
    IF i <= 1 THEN [res |-> "ok", v |-> buckets]
    ELSE IF i >= Len(buckets) THEN [res |-> "panic", v |-> << >>]
    ELSE getPMFLoop(Put(buckets, i, At(buckets, i) - At(buckets, i - 1)), i - 1)

getPMFSV(v, splitPoints, searchCriteria) ==
    LET buckets == getCDFSV(v, splitPoints, searchCriteria)
    IN IF buckets.res # "ok" THEN buckets ELSE getPMFLoop(buckets.v, Len(buckets.v))

\* DoubleSketch.GetCDFCriteria and GetPMFCriteria return [res, v, sk]
GetCDFCriteria(d, rank, criteria) ==
    IF d.n = 0 THEN [res |-> "error", v |-> << >>, sk |-> d]
    ELSE IF refreshSortedView(d).res # "ok"
    THEN [res |-> refreshSortedView(d).res, v |-> << >>, sk |-> d]
    ELSE [res |-> getCDFSV(refreshSortedView(d).sk.kllDoublesSV[1], rank, criteria).res,
          v |-> getCDFSV(refreshSortedView(d).sk.kllDoublesSV[1], rank, criteria).v,
          sk |-> refreshSortedView(d).sk]

GetPMFCriteria(d, rank, criteria) ==
    IF d.n = 0 THEN [res |-> "error", v |-> << >>, sk |-> d]
    ELSE IF refreshSortedView(d).res # "ok"
    THEN [res |-> refreshSortedView(d).res, v |-> << >>, sk |-> d]
    ELSE [res |-> getPMFSV(refreshSortedView(d).sk.kllDoublesSV[1], rank, criteria).res,
          v |-> getPMFSV(refreshSortedView(d).sk.kllDoublesSV[1], rank, criteria).v,
          sk |-> refreshSortedView(d).sk]

\* DoubleSketch.GetCDF and GetPMF: the criterion is KLL_INCLUSIVE
GetCDFD(d, rank) == GetCDFCriteria(d, rank, TRUE)

GetPMFD(d, rank) == GetPMFCriteria(d, rank, TRUE)

-----------------------------------------------------------------------------
(* The min and max pointers of two ItemsSketches.  minItem and maxItem are   *)
(* *C: cells is the memory they point into, a pointer is the index of its    *)
(* cell and NilPtr is nil.  Update stores the address of its parameter, a    *)
(* new cell for each call; Merge stores the pointers of the other sketch or  *)
(* the addresses of its locals myMin and myMax.                              *)

NilPtr == 0

Deref(cells, ptr) == IF ptr = NilPtr THEN NoItem ELSE cells[ptr]

\* an update that writes the item through the pointers it holds
updateItemPtrsInPlace(cells, empty, minPtr, maxPtr, item) ==
    IF empty
    THEN [cells |-> Append(cells, item), min |-> Len(cells) + 1, max |-> Len(cells) + 1]
    ELSE [cells |-> [i \in 1..Len(cells) |->
                        IF (i = minPtr /\ lessFn(item, cells[minPtr]))
                              \/ (i = maxPtr /\ lessFn(cells[maxPtr], item))
                        THEN item ELSE cells[i]],
          min |-> minPtr, max |-> maxPtr]

\* updateItem: s.minItem = &item and s.maxItem = &item, item being the
\* parameter of this call
updateItemPtrs(cells, empty, minPtr, maxPtr, item) ==
    IF empty
    THEN [cells |-> Append(cells, item), min |-> Len(cells) + 1, max |-> Len(cells) + 1]
    ELSE [cells |-> Append(cells, item),
          min |-> IF lessFn(item, cells[minPtr]) THEN Len(cells) + 1 ELSE minPtr,
          max |-> IF lessFn(cells[maxPtr], item) THEN Len(cells) + 1 ELSE maxPtr]

\* mergeItemsSketch, "Update min, max items": myMin and myMax are locals that
\* hold the min and max s had before the merge
mergePtrs(cells, myEmpty, minPtr, maxPtr, otherMin, otherMax) ==
    IF myEmpty THEN [cells |-> cells, min |-> otherMin, max |-> otherMax]
    ELSE [cells |-> cells \o <<cells[minPtr], cells[maxPtr]>>,
          min |-> IF lessFn(cells[minPtr], cells[otherMin])
                  THEN Len(cells) + 1 ELSE otherMin,
          max |-> IF lessFn(cells[otherMax], cells[maxPtr])
                  THEN Len(cells) + 2 ELSE otherMax]

\* what can be observed of the sketch sk whose pointers are minPtr and maxPtr
Observed(sk, cells, minPtr, maxPtr) ==
    [n |-> sk.n, k |-> sk.k, minK |-> sk.minK, numLevels |-> sk.numLevels,
     levels |-> sk.levels, items |-> sk.items,
     isLevelZeroSorted |-> sk.isLevelZeroSorted,
     minItem |-> Deref(cells, minPtr), maxItem |-> Deref(cells, maxPtr)]

\* the other sketch, new, with the memory still empty and every pointer nil;
\* pre is what was observed of it when it was merged
NoOther ==
    [sk |-> NewItemsSketch(MIN_K), cnt |-> [x \in AllItems |-> 0], cells |-> << >>,
     aMin |-> NilPtr, aMax |-> NilPtr, bMin |-> NilPtr, bMax |-> NilPtr,
     merged |-> FALSE,
     pre |-> Observed(NewItemsSketch(MIN_K), << >>, NilPtr, NilPtr)]

-----------------------------------------------------------------------------
(* State *)

\* what a caller of the getters sees of a sketch
Summary(s) ==
    [n |-> s.n, k |-> s.k, minK |-> s.minK, minItem |-> s.minItem,
     maxItem |-> s.maxItem, est |-> IsEstimationMode(s), view |-> s.sortedView # NoView]

NoSummary ==
    [n |-> 0, k |-> 0, minK |-> 0, minItem |-> NoItem, maxItem |-> NoItem,
     est |-> FALSE, view |-> FALSE]

NoOut == [op |-> "none"]

NoSeen == [cnt |-> [x \in AllItems |-> 0], merges |-> 0]

\* the values DoubleSketch.Update is called with
DValues == {NaN, 1, 2}

\* the split points GetCDF and GetPMF of the DoubleSketch are called with
DSplits == {<< >>, <<1>>, <<1, 2>>, <<2, 1>>}

\* no call of the DoubleSketch made yet: res is how the last call ended, calls
\* and vals count and collect the values other than NaN passed to Update, op
\* and arg are the last call and the value passed to it, pre is the sketch
\* before it
NoCall ==
    [res |-> "ok", calls |-> 0, vals |-> {}, op |-> "none", arg |-> NaN,
     pre |-> NewKllDoubleSketch(KD, DEFAULT_M).sk]

Init ==
    /\ A = NewItemsSketch(KA)
    /\ seen = NoSeen
    /\ last = [op |-> "new", pre |-> NoSummary, oth |-> NoSummary]
    /\ out = NoOut
    /\ D = NewKllDoubleSketch(KD, DEFAULT_M).sk
    /\ dres = NoCall
    /\ B = NoOther

DoUpdate(item) ==
    /\ A' = Update(A, item)
    /\ seen' = [seen EXCEPT !.cnt[item] = @ + 1]
    /\ last' = [op |-> "update", pre |-> Summary(A), oth |-> NoSummary]
    /\ out' = NoOut
    /\ UNCHANGED <<D, dres, B>>

\* s.Update(item)
UpdateA(item) == A.n < MaxN /\ DoUpdate(item)

\* s.Merge(other)
MergeA(o) ==
    /\ seen.merges < MaxMerges
    /\ A' = Merge(A, o.sk)
    /\ seen' = [cnt |-> [x \in AllItems |-> seen.cnt[x] + o.cnt[x]],
                merges |-> seen.merges + 1]
    /\ last' = [op |-> "merge", pre |-> Summary(A), oth |-> Summary(o.sk)]
    /\ out' = NoOut
    /\ UNCHANGED <<D, dres, B>>

\* s.Reset()
ResetA ==
    /\ A' = Reset(A)
    /\ seen' = NoSeen
    /\ last' = [op |-> "reset", pre |-> Summary(A), oth |-> NoSummary]
    /\ out' = NoOut
    /\ UNCHANGED <<D, dres, B>>

\* s.GetSortedView()
GetSortedViewA ==
    /\ A' = GetSortedView(A).s
    /\ last' = [op |-> "query", pre |-> Summary(A), oth |-> NoSummary]
    /\ out' = [op |-> "view", err |-> GetSortedView(A).err]
    /\ UNCHANGED <<seen, D, dres, B>>

\* NewItemsSketchFromSlice(s.ToSlice()), and ToSlice of the sketch it returns
RoundTripA ==
    /\ out' = [op |-> "roundtrip", bytes |-> ToSlice(A),
               back |-> NewItemsSketchFromSlice(ToSlice(A)),
               again |-> ToSlice(NewItemsSketchFromSlice(ToSlice(A)).sk)]
    /\ last' = [op |-> "query", pre |-> Summary(A), oth |-> NoSummary]
    /\ UNCHANGED <<A, seen, D, dres, B>>

Next ==
    \/ \E item \in Items : UpdateA(item)
    \/ \E o \in Others : MergeA(o)
    \/ ResetA

Spec == Init /\ [][Next]_vars

\* the queries, on a sketch fed up to MaxQN items out of AllItems and merged
UpdateQ(item) == A.n < MaxQN /\ DoUpdate(item)

\* s.GetRank(item, inclusive)
GetRankA(item, inclusive) ==
    /\ A' = GetRank(A, item, inclusive).s
    /\ out' = [op |-> "rank", item |-> item, inclusive |-> inclusive,
               err |-> GetRank(A, item, inclusive).err,
               rank |-> GetRank(A, item, inclusive).rank]
    /\ last' = [op |-> "query", pre |-> Summary(A), oth |-> NoSummary]
    /\ UNCHANGED <<seen, D, dres, B>>

\* s.GetQuantile(i / N, inclusive)
GetQuantileA(i, inclusive) ==
    /\ i <= A.n
    /\ A' = GetQuantile(A, i, Max(A.n, 1), inclusive).s
    /\ out' = [op |-> "quantile", i |-> i, inclusive |-> inclusive,
               err |-> GetQuantile(A, i, Max(A.n, 1), inclusive).err,
               quantile |-> GetQuantile(A, i, Max(A.n, 1), inclusive).quantile]
    /\ last' = [op |-> "query", pre |-> Summary(A), oth |-> NoSummary]
    /\ UNCHANGED <<seen, D, dres, B>>

\* the operands of Merge in SpecQuery
QueryOthers == {OtherEmpty, OtherSingle, OtherExact, OtherLowK1}

NextQuery ==
    \/ \E item \in AllItems : UpdateQ(item)
    \/ \E o \in QueryOthers : MergeA(o)
    \/ ResetA
    \/ GetSortedViewA
    \/ \E item \in AllItems, inclusive \in BOOLEAN : GetRankA(item, inclusive)
    \/ \E i \in 0..MaxQN, inclusive \in BOOLEAN : GetQuantileA(i, inclusive)

SpecQuery == Init /\ [][NextQuery]_vars

\* the split points GetCDF and GetPMF of the ItemsSketch are called with
ISplits == {<<0>>, <<1, 2>>, <<2, 1>>}

\* s.GetMinItem()
GetMinItemA ==
    /\ out' = [op |-> "min", err |-> GetMinItem(A).err, item |-> GetMinItem(A).item]
    /\ last' = [op |-> "query", pre |-> Summary(A), oth |-> NoSummary]
    /\ UNCHANGED <<A, seen, D, dres, B>>

\* s.GetMaxItem()
GetMaxItemA ==
    /\ out' = [op |-> "max", err |-> GetMaxItem(A).err, item |-> GetMaxItem(A).item]
    /\ last' = [op |-> "query", pre |-> Summary(A), oth |-> NoSummary]
    /\ UNCHANGED <<A, seen, D, dres, B>>

\* s.GetPMF(splitPoints, inclusive)
GetPMFA(splitPoints, inclusive) ==
    /\ A' = GetPMF(A, splitPoints, inclusive).s
    /\ out' = [op |-> "pmf", splitPoints |-> splitPoints, inclusive |-> inclusive,
               err |-> GetPMF(A, splitPoints, inclusive).err,
               buckets |-> GetPMF(A, splitPoints, inclusive).buckets]
    /\ last' = [op |-> "query", pre |-> Summary(A), oth |-> NoSummary]
    /\ UNCHANGED <<seen, D, dres, B>>

\* s.GetCDF(splitPoints, inclusive)
GetCDFA(splitPoints, inclusive) ==
    /\ A' = GetCDF(A, splitPoints, inclusive).s
    /\ out' = [op |-> "cdf", splitPoints |-> splitPoints, inclusive |-> inclusive,
               err |-> GetCDF(A, splitPoints, inclusive).err,
               buckets |-> GetCDF(A, splitPoints, inclusive).buckets]
    /\ last' = [op |-> "query", pre |-> Summary(A), oth |-> NoSummary]
    /\ UNCHANGED <<seen, D, dres, B>>

\* s = NewItemsSketchFromSlice(s.ToSlice()): the sketch is replaced by the one
\* read back from its serialized form
LoadA ==
    /\ NewItemsSketchFromSlice(ToSlice(A)).err = "none"
    /\ A' = NewItemsSketchFromSlice(ToSlice(A)).sk
    /\ last' = [op |-> "load", pre |-> Summary(A), oth |-> NoSummary]
    /\ out' = NoOut
    /\ UNCHANGED <<seen, D, dres, B>>

\* every getter, on a sketch that is new, fed, reset or read back
NextGetters ==
    \/ \E item \in AllItems : UpdateQ(item)
    \/ ResetA
    \/ LoadA
    \/ GetMinItemA
    \/ GetMaxItemA
    \/ GetSortedViewA
    \/ \E item \in AllItems, inclusive \in BOOLEAN : GetRankA(item, inclusive)
    \/ \E i \in 0..MaxQN, inclusive \in BOOLEAN : GetQuantileA(i, inclusive)
    \/ \E splitPoints \in ISplits, inclusive \in BOOLEAN : GetPMFA(splitPoints, inclusive)
    \/ \E splitPoints \in ISplits, inclusive \in BOOLEAN : GetCDFA(splitPoints, inclusive)

SpecGetters == Init /\ [][NextGetters]_vars

\* NewItemsSketch with the error it returns: k is a uint16
NewItemsSketchChecked(k) == [err |-> k < MIN_K \/ k > MAX_K, sk |-> NewItemsSketch(k)]

\* the values of k (an int) and m (an int) NewKllDoubleSketch is called with
DoubleKInputs == {-1, 0, 1, 2, 3, 4, 5, 6, 7, 8, 9, 10, 200, MAX_K - 1, MAX_K, MAX_K + 1}

DoubleMInputs == -1..10

\* the values of k (a uint16) NewItemsSketch is called with
ItemsKInputs == {0, 1, 2, 7, 8, 9, 200, MAX_K - 1, MAX_K}

\* sk, err := NewKllDoubleSketch(k, m)
CallNewKllDoubleSketch(k, m) ==
    /\ out' = [op |-> "newdouble", k |-> k, m |-> m,
               err |-> NewKllDoubleSketch(k, m).err,
               n |-> NewKllDoubleSketch(k, m).sk.n,
               skK |-> NewKllDoubleSketch(k, m).sk.k,
               skM |-> NewKllDoubleSketch(k, m).sk.m]
    /\ UNCHANGED <<A, seen, last, D, dres, B>>

\* sk, err := NewItemsSketch(k, op)
CallNewItemsSketch(k) ==
    /\ out' = [op |-> "newitems", k |-> k, m |-> DEFAULT_M,
               err |-> NewItemsSketchChecked(k).err,
               n |-> NewItemsSketchChecked(k).sk.n,
               skK |-> NewItemsSketchChecked(k).sk.k,
               skM |-> NewItemsSketchChecked(k).sk.m]
    /\ UNCHANGED <<A, seen, last, D, dres, B>>

NextNew ==
    \/ \E k \in DoubleKInputs, m \in DoubleMInputs : CallNewKllDoubleSketch(k, m)
    \/ \E k \in ItemsKInputs : CallNewItemsSketch(k)

SpecNew == Init /\ [][NextNew]_vars

\* the values of K levelCapacity is called with, up to the largest K
CapKInputs == {MIN_K, 9, 200, 32767, 32768, 40000, MAX_K - 1, MAX_K}

\* capacity := levelCapacity(k, numLevels, level, _DEFAULT_M)
CallLevelCapacity(k, numLevels, level) ==
    /\ out' = [op |-> "cap", k |-> k, numLevels |-> numLevels, level |-> level,
               capacity |-> levelCapacity(k, numLevels, level, DEFAULT_M)]
    /\ UNCHANGED <<A, seen, last, D, dres, B>>

NextCap ==
    \E k \in CapKInputs, numLevels \in 1..(MaxDepth + 1) :
        \E level \in 0..(numLevels - 1) : CallLevelCapacity(k, numLevels, level)

SpecCap == Init /\ [][NextCap]_vars

\* s.Update("A") again and again, far enough for levels above 0 to be compacted
UpdateDeep == A.n < MaxDeepN /\ DoUpdate(1)

\* a long stream of one item, with a merge at any point of it
NextDeep ==
    \/ UpdateDeep
    \/ \E o \in Others : MergeA(o)

SpecDeep == Init /\ [][NextDeep]_vars

\* a.Update(item), with the pointers of a
UpdateAliasA(item) ==
    /\ A.n < MaxAliasN
    /\ A' = Update(A, item)
    /\ B' = [B EXCEPT
                !.cells = updateItemPtrs(B.cells, IsEmpty(A), B.aMin, B.aMax, item).cells,
                !.aMin = updateItemPtrs(B.cells, IsEmpty(A), B.aMin, B.aMax, item).min,
                !.aMax = updateItemPtrs(B.cells, IsEmpty(A), B.aMin, B.aMax, item).max]
    /\ seen' = [seen EXCEPT !.cnt[item] = @ + 1]
    /\ last' = [op |-> "update", pre |-> Summary(A), oth |-> NoSummary]
    /\ out' = NoOut
    /\ UNCHANGED <<D, dres>>

\* b.Update(item), before b is merged into a
UpdateAliasB(item) ==
    /\ ~B.merged
    /\ B.sk.n < MaxAliasN
    /\ B' = [B EXCEPT
                !.sk = Update(B.sk, item),
                !.cnt[item] = @ + 1,
                !.cells = updateItemPtrs(B.cells, IsEmpty(B.sk), B.bMin, B.bMax, item).cells,
                !.bMin = updateItemPtrs(B.cells, IsEmpty(B.sk), B.bMin, B.bMax, item).min,
                !.bMax = updateItemPtrs(B.cells, IsEmpty(B.sk), B.bMin, B.bMax, item).max]
    /\ UNCHANGED <<A, seen, last, out, D, dres>>

\* a.Merge(b)
MergeAlias ==
    /\ ~B.merged
    /\ A' = Merge(A, B.sk)
    /\ B' = IF IsEmpty(B.sk)
            THEN [B EXCEPT !.merged = TRUE,
                           !.pre = Observed(B.sk, B.cells, B.bMin, B.bMax)]
            ELSE [B EXCEPT
                    !.merged = TRUE,
                    !.pre = Observed(B.sk, B.cells, B.bMin, B.bMax),
                    !.cells = mergePtrs(B.cells, IsEmpty(A), B.aMin, B.aMax,
                                        B.bMin, B.bMax).cells,
                    !.aMin = mergePtrs(B.cells, IsEmpty(A), B.aMin, B.aMax,
                                       B.bMin, B.bMax).min,
                    !.aMax = mergePtrs(B.cells, IsEmpty(A), B.aMin, B.aMax,
                                       B.bMin, B.bMax).max]
    /\ seen' = [cnt |-> [x \in AllItems |-> seen.cnt[x] + B.cnt[x]],
                merges |-> seen.merges + 1]
    /\ last' = [op |-> "merge", pre |-> Summary(A), oth |-> Summary(B.sk)]
    /\ out' = NoOut
    /\ UNCHANGED <<D, dres>>

\* two sketches fed and merged once, a fed further afterwards
NextAlias ==
    \/ \E item \in Items : UpdateAliasA(item)
    \/ \E item \in Items : UpdateAliasB(item)
    \/ MergeAlias

SpecAlias == Init /\ [][NextAlias]_vars

\* serialization, of a sketch fed up to MaxSerN items and merged
UpdateS(item) == A.n < MaxSerN /\ DoUpdate(item)

NextSerde ==
    \/ \E item \in Items : UpdateS(item)
    \/ \E o \in Others : MergeA(o)
    \/ RoundTripA

SpecSerde == Init /\ [][NextSerde]_vars

\* d.Update(value); an aborted call ends the program
DoubleUpdate(value) ==
    /\ dres.res # "panic"
    /\ \E r \in UpdateD(D, value) :
          /\ D' = r.sk
          /\ dres' = [res |-> r.res,
                      calls |-> IF IsNaN(value) THEN dres.calls ELSE dres.calls + 1,
                      vals |-> IF IsNaN(value) THEN dres.vals ELSE dres.vals \cup {value},
                      op |-> "update",
                      arg |-> value,
                      pre |-> D]
    /\ out' = NoOut
    /\ UNCHANGED <<A, seen, last, B>>

\* d.GetCDF(splitPoints)
DoubleGetCDF(splitPoints) ==
    /\ dres.res # "panic"
    /\ D' = GetCDFD(D, splitPoints).sk
    /\ dres' = [dres EXCEPT !.res = GetCDFD(D, splitPoints).res, !.op = "cdf", !.pre = D]
    /\ out' = [op |-> "dcdf", splitPoints |-> splitPoints,
               buckets |-> GetCDFD(D, splitPoints).v]
    /\ UNCHANGED <<A, seen, last, B>>

\* d.GetPMF(splitPoints)
DoubleGetPMF(splitPoints) ==
    /\ dres.res # "panic"
    /\ D' = GetPMFD(D, splitPoints).sk
    /\ dres' = [dres EXCEPT !.res = GetPMFD(D, splitPoints).res, !.op = "pmf", !.pre = D]
    /\ out' = [op |-> "dpmf", splitPoints |-> splitPoints,
               buckets |-> GetPMFD(D, splitPoints).v]
    /\ UNCHANGED <<A, seen, last, B>>

NextDouble ==
    \/ \E value \in DValues : DoubleUpdate(value)
    \/ \E splitPoints \in DSplits : DoubleGetCDF(splitPoints)
    \/ \E splitPoints \in DSplits : DoubleGetPMF(splitPoints)

SpecDouble == Init /\ [][NextDouble]_vars

-----------------------------------------------------------------------------
(* Claims *)

RECURSIVE WeightFrom(_, _)
WeightFrom(s, l) ==
    IF l >= s.numLevels THEN 0
    ELSE Pow2(l) * (At(s.levels, l + 1) - At(s.levels, l)) + WeightFrom(s, l + 1)

\* the items fed to A since it was created or reset, merged streams included
SeenItems == {x \in AllItems : seen.cnt[x] > 0}

MinSeen == CHOOSE x \in SeenItems : \A y \in SeenItems : ~lessFn(y, x)

MaxSeen == CHOOSE x \in SeenItems : \A y \in SeenItems : ~lessFn(x, y)

Retained(s) == {At(s.items, i) : i \in At(s.levels, 0)..(At(s.levels, s.numLevels) - 1)}

LesserOf(a, b) == IF lessFn(b, a) THEN b ELSE a

GreaterOf(a, b) == IF lessFn(a, b) THEN b ELSE a

\* C1: after any sequence of Update, Merge and Reset the sum over the levels
\* l < numLevels of 2^l * (levels[l+1] - levels[l]) equals N.
C1_WeightInvariant == WeightFrom(A, 0) = A.n

\* a merge of two estimation-mode sketches that leaves three levels
C1_Witness ==
    last.op = "merge" /\ last.pre.est /\ last.oth.est /\ A.numLevels >= 3

\* C2: after A.Merge(B), N is N_A + N_B and, when the result is not empty, the
\* min item is the lesser of the two mins and the max item the greater of the
\* two maxes (an empty sketch has no min and no max).
C2_MergeNMinMax ==
    last.op = "merge" =>
        /\ A.n = last.pre.n + last.oth.n
        /\ A.n > 0 =>
             /\ A.minItem = IF last.pre.n = 0 THEN last.oth.minItem
                            ELSE IF last.oth.n = 0 THEN last.pre.minItem
                            ELSE LesserOf(last.pre.minItem, last.oth.minItem)
             /\ A.maxItem = IF last.pre.n = 0 THEN last.oth.maxItem
                            ELSE IF last.oth.n = 0 THEN last.pre.maxItem
                            ELSE GreaterOf(last.pre.maxItem, last.oth.maxItem)

\* two estimation-mode sketches of different K; B brings the min and the max
C2_Witness ==
    /\ last.op = "merge" /\ last.pre.est /\ last.oth.est
    /\ last.pre.k # last.oth.k
    /\ lessFn(last.oth.minItem, last.pre.minItem)
    /\ lessFn(last.pre.maxItem, last.oth.maxItem)

\* C3: after a non-empty sequence of Update calls, compactions included, the
\* min item is the least and the max item the greatest item ever passed to
\* Update, retained or not.
C3_MinMaxExact ==
    (seen.merges = 0 /\ A.n > 0) =>
        (A.minItem = MinSeen /\ A.maxItem = MaxSeen)

\* updates only, a compaction has happened, and the greatest item is retained
\* no more
C3_Witness ==
    /\ seen.merges = 0 /\ last.op = "update" /\ A.numLevels > 1
    /\ MaxSeen \notin Retained(A)
    /\ A.maxItem = MaxSeen

\* C4: NewItemsSketchFromSlice(s.ToSlice()) equals s in N, K, M, minK, levels,
\* retained items in logical order, min and max, and serializing it again
\* gives the same bytes.
C4_RoundTrip ==
    out.op = "roundtrip" =>
        /\ out.back.err = "none"
        /\ out.back.sk.n = A.n
        /\ out.back.sk.k = A.k
        /\ out.back.sk.m = A.m
        /\ out.back.sk.minK = A.minK
        /\ out.back.sk.levels = A.levels
        /\ getRetainedItemsArray(out.back.sk) = getRetainedItemsArray(A)
        /\ out.back.sk.minItem = A.minItem
        /\ out.back.sk.maxItem = A.maxItem
        /\ out.again = out.bytes

\* the number of items fed to A that are <= q (inclusive) or < q
CountUpTo(q, inclusive) ==
    LET upto == {x \in AllItems : IF inclusive THEN ~lessFn(q, x) ELSE lessFn(x, q)}
        RECURSIVE Sum(_)
        Sum(S) == IF S = {} THEN 0
                  ELSE LET x == CHOOSE y \in S : TRUE
                       IN  seen.cnt[x] + Sum(S \ {x})
    IN  Sum(upto)

\* the stream fed to A has no item twice
Distinct == \A x \in AllItems : seen.cnt[x] <= 1

\* the i-th smallest item fed to A, for a stream of distinct items
Nth(i) ==
    CHOOSE x \in SeenItems :
        Cardinality({y \in SeenItems : ~lessFn(x, y)}) = i

C7_MergeMinK ==
    (last.op = "merge" /\ last.oth.n > 0) =>
        /\ A.minK = IF last.oth.est THEN Min(last.pre.minK, last.oth.minK)
                    ELSE last.pre.minK
        /\ \A pmf \in BOOLEAN :
             GetNormalizedRankError(A, pmf) = getNormalizedRankError(A.minK, pmf)

\* B in estimation mode with the smaller minK: the error reported grows
C7_Witness ==
    /\ last.op = "merge" /\ last.oth.est /\ last.oth.minK < last.pre.minK
    /\ A.minK = last.oth.minK
    /\ GetNormalizedRankError(A, FALSE) > getNormalizedRankError(last.pre.minK, FALSE)

\* C8: the cached sorted view is cleared by every Update, by every Merge with
\* a non-empty other and by every Reset, so that a view held by the sketch is
\* the view of its current state.
C8_ViewInvalidation ==
    /\ (\/ last.op \in {"update", "reset"}
        \/ (last.op = "merge" /\ last.oth.n > 0)) => A.sortedView = NoView
    /\ A.sortedView # NoView => A.sortedView[1] = newItemsSketchSortedView(A)

\* a merge of a non-empty sketch into a sketch that held a view
C8_Witness ==
    /\ last.op = "merge" /\ last.oth.n > 0 /\ last.pre.view
    /\ A.sortedView = NoView

\* C9: after Reset the sketch is the one NewItemsSketch gives for the same K
\* and M: N = 0, one level, levels = [K, K], min and max nil, minK = K, and
\* the stream replayed on it reports the error of a fresh sketch.
C9_ResetFresh ==
    /\ last.op = "reset" => A = NewItemsSketch(KA)
    /\ seen.merges = 0 =>
         \A pmf \in BOOLEAN :
             GetNormalizedRankError(A, pmf) = getNormalizedRankError(KA, pmf)

\* C10: every DoubleSketch.Update with a value other than NaN completes and
\* adds one to N, the calls that find level 0 full included.
C10_UpdateCompletes ==
    (dres.op = "update" /\ ~IsNaN(dres.arg)) =>
        (dres.res = "ok" /\ D.n = dres.pre.n + 1)

\* the least and the greatest of a non-empty set of doubles
LeastOf(S) == CHOOSE x \in S : \A y \in S : x <= y

GreatestOf(S) == CHOOSE x \in S : \A y \in S : y <= x

\* C11: after a non-empty sequence of Update calls with values other than NaN,
\* in any order, GetMinItem of the DoubleSketch is the minimum and GetMaxItem
\* the maximum of the values passed.
C11_DoubleMinMaxExact ==
    (dres.res # "panic" /\ dres.vals # {}) =>
        /\ D.minDoubleItem = LeastOf(dres.vals)
        /\ D.maxDoubleItem = GreatestOf(dres.vals)

\* the running sums of a sequence of numbers
RECURSIVE RunningSums(_, _, _)
RunningSums(seq, i, sum) ==
    IF i > Len(seq) THEN << >>
    ELSE <<sum + seq[i]>> \o RunningSums(seq, i + 1, sum + seq[i])

\* C12: for strictly ascending split points s_1 < ... < s_k on a non-empty
\* sketch GetCDF returns k + 1 values ending in 1, and GetPMF the successive
\* differences of that CDF: its running sums are the CDF and it sums to 1.
\* (The buckets are numerators over N.)
C12_PmfCdfConsistent ==
    (/\ dres.op \in {"cdf", "pmf"} /\ out.op \in {"dcdf", "dpmf"}
     /\ dres.pre.n > 0
     /\ Len(out.splitPoints) >= 1
     /\ checkDoublesSplitPointsOrder(out.splitPoints)) =>
        /\ dres.res = "ok"
        /\ Len(out.buckets) = Len(out.splitPoints) + 1
        /\ out.op = "dcdf" => out.buckets[Len(out.buckets)] = dres.pre.n
        /\ out.op = "dpmf" =>
             /\ RunningSums(out.buckets, 1, 0) = GetCDFD(dres.pre, out.splitPoints).v
             /\ RunningSums(out.buckets, 1, 0)[Len(out.buckets)] = dres.pre.n

\* buf[start : start+length]
Slice(buf, start, length) == [i \in 1..length |-> At(buf, start + i - 1)]

\* the elements of a run at its positions b, b + 2, b + 4, ...
EveryOther(run, b) == [i \in 1..(Len(run) \div 2) |-> At(run, b + 2 * (i - 1))]

\* the halves randomlyHalveUpItems can leave at the top of the run
\* buf[start : start+length], over all the offsets it can pick
HalveUpResults(buf, start, length) ==
    {Slice(randomlyHalveUpItems(buf, start, length), start + (length \div 2), length \div 2)}

\* the run the next Update compacts when level 0, the only level, is full:
\* the sorted level 0 without its first item when the population is odd
FullRunStart == At(A.levels, 0) + ((At(A.levels, 1) - At(A.levels, 0)) % 2)

FullRunLength ==
    (At(A.levels, 1) - At(A.levels, 0)) - ((At(A.levels, 1) - At(A.levels, 0)) % 2)

FullRun == sortSlice(A.items, FullRunStart, FullRunLength)

\* C13: a compaction picks its offset b as a random bit: for an even-sized
\* sorted run both outcomes are possible, the elements at the even positions
\* surviving (b = 0) and the elements at the odd positions (b = 1).
C13_BothOffsetsPossible ==
    (A.numLevels = 1 /\ At(A.levels, 0) = 0) =>
        /\ EveryOther(Slice(FullRun, FullRunStart, FullRunLength), 0)
             \in HalveUpResults(FullRun, FullRunStart, FullRunLength)
        /\ EveryOther(Slice(FullRun, FullRunStart, FullRunLength), 1)
             \in HalveUpResults(FullRun, FullRunStart, FullRunLength)

\* C14: on an ItemsSketch with N = 0 (new, reset or read back from the
\* compact-empty form) GetMinItem, GetMaxItem, GetRank, GetQuantile, GetPMF,
\* GetCDF and GetSortedView each return an error and leave the sketch as it is.
C14_EmptyGettersFail ==
    [][(A.n = 0 /\ last'.op = "query") => (out'.err /\ A' = A)]_vars

\* GetCDF has failed on an empty sketch, which still equals a new one
C14_Witness ==
    /\ last.op = "query" /\ last.pre.n = 0 /\ A.n = 0
    /\ out.op = "cdf" /\ out.err
    /\ A = NewItemsSketch(KA)

\* C15: A.Merge(B) with B empty changes nothing, whatever B's K is: N, minK,
\* numLevels, levels, items, min, max and level0Sorted of A stay as they are,
\* and so does the normalized rank error A reports.
C15_MergeEmptyIsNoOp ==
    [][(last'.op = "merge" /\ last'.oth.n = 0) =>
          /\ A'.n = A.n /\ A'.minK = A.minK /\ A'.numLevels = A.numLevels
          /\ A'.levels = A.levels /\ A'.items = A.items
          /\ A'.minItem = A.minItem /\ A'.maxItem = A.maxItem
          /\ A'.isLevelZeroSorted = A.isLevelZeroSorted
          /\ \A pmf \in BOOLEAN :
                GetNormalizedRankError(A', pmf) = GetNormalizedRankError(A, pmf)]_vars

\* an empty sketch of a smaller K has been merged into a sketch in estimation
\* mode
C15_Witness ==
    /\ last.op = "merge" /\ last.oth.n = 0 /\ last.oth.k < A.k
    /\ last.pre.n = A.n /\ A.n > 0 /\ A.numLevels > 1 /\ A.minK = A.k

\* bit b of a byte
BitOf(byte, b) == (byte \div (2 ^ b)) % 2

\* N = 0: the compact-empty form, 8 bytes, empty flag set
IsCompactEmptyForm(bytes) ==
    Len(bytes) = 8 /\ At(bytes, 0) = 2 /\ At(bytes, 1) = 1 /\ BitOf(At(bytes, 3), 0) = 1

\* N = 1: the compact-single form, single-item flag set
IsCompactSingleForm(bytes) ==
    At(bytes, 0) = 2 /\ At(bytes, 1) = 2 /\ BitOf(At(bytes, 3), 2) = 1
        /\ BitOf(At(bytes, 3), 0) = 0

\* N >= 2: the preamble of the compact-full form carries N, minK, numLevels and
\* the first numLevels level offsets of s
FullFormPreamble(bytes, s) ==
    /\ At(bytes, 0) = 5 /\ At(bytes, 1) = 1
    /\ BitOf(At(bytes, 3), 0) = 0 /\ BitOf(At(bytes, 3), 2) = 0
    /\ Uint32(bytes, 8) = s.n /\ Uint32(bytes, 12) = 0
    /\ Uint16(bytes, 16) = s.minK
    /\ At(bytes, 18) = s.numLevels
    /\ \A i \in 0..(s.numLevels - 1) : Uint32(bytes, 20 + i * 4) = At(s.levels, i)

\* the data of the compact-full form, read as length-prefixed strings, is min,
\* max and the retained items of s
FullFormData(bytes, s) ==
    LET data == DeserializeFromSlice(bytes, 20 + s.numLevels * 4, 2 + GetNumRetained(s))
    IN /\ ~data.err
       /\ data.items = <<s.minItem, s.maxItem>> \o getRetainedItemsArray(s)

\* C16: ToSlice picks the form from N alone: N = 0 gives the compact-empty form
\* of exactly 8 bytes with the empty flag (bit 0 of byte 3) set, N = 1 the
\* compact-single form with the single-item flag (bit 2 of byte 3) set, N >= 2
\* the compact-full form carrying N, minK, numLevels, the first numLevels level
\* offsets, min, max and the retained items.
C16_FormFollowsN ==
    out.op = "roundtrip" =>
        /\ A.n = 0 => IsCompactEmptyForm(out.bytes)
        /\ A.n = 1 => IsCompactSingleForm(out.bytes)
        /\ A.n >= 2 => (FullFormPreamble(out.bytes, A) /\ FullFormData(out.bytes, A))

\* C17: an ItemsSketch fed only by Update is in exact mode (numLevels = 1,
\* IsEstimationMode false, GetNumRetained = N) exactly while N <= K, and in
\* estimation mode (numLevels > 1, GetNumRetained < N) from the (K+1)-th update
\* on.
C17_ExactModeUpToK ==
    seen.merges = 0 =>
        /\ A.n <= A.k =>
              (A.numLevels = 1 /\ ~IsEstimationMode(A) /\ GetNumRetained(A) = A.n)
        /\ A.n > A.k =>
              (A.numLevels > 1 /\ IsEstimationMode(A) /\ GetNumRetained(A) < A.n)

\* the (K+1)-th update has compacted level 0
C17_Witness ==
    /\ seen.merges = 0 /\ last.op = "update" /\ last.pre.n = A.k /\ ~last.pre.est
    /\ A.n = A.k + 1 /\ A.numLevels = 2 /\ GetNumRetained(A) < A.n

\* C18: DoubleSketch.Update(NaN) returns no error and changes nothing, in any
\* state of the sketch.
C18_UpdateNaNIgnored ==
    (dres.op = "update" /\ dres.arg = NaN) => (dres.res = "ok" /\ D = dres.pre)

\* NaN has been fed to a sketch that holds items
C18_Witness ==
    /\ dres.op = "update" /\ dres.arg = NaN /\ dres.res = "ok"
    /\ dres.pre.n > 1 /\ D.n = dres.pre.n

\* C19: NewKllDoubleSketch(k, m) returns an empty sketch exactly when m is even,
\* 2 <= m <= 8 and m <= k <= 65535, and an error otherwise; NewItemsSketch(k)
\* returns an empty sketch exactly when 8 <= k <= 65535, and an error otherwise.
C19_ConstructorValidation ==
    /\ out.op = "newdouble" =>
          /\ ~out.err <=> (out.m % 2 = 0 /\ 2 <= out.m /\ out.m <= 8
                              /\ out.m <= out.k /\ out.k <= 65535)
          /\ ~out.err => (out.n = 0 /\ out.skK = out.k /\ out.skM = out.m)
    /\ out.op = "newitems" =>
          /\ ~out.err <=> (8 <= out.k /\ out.k <= 65535)
          /\ ~out.err => (out.n = 0 /\ out.skK = out.k)

\* an odd m within 2..8 has been refused although k is in range
C19_Witness ==
    out.op = "newdouble" /\ out.m = 7 /\ out.k = 200 /\ out.err

\* C20: after any sequence of Update, Merge and Reset the levels array of an
\* ItemsSketch has exactly numLevels + 1 entries, is non-decreasing, and its
\* last entry levels[numLevels] is the length of the items buffer.
C20_LevelsLayout ==
    /\ Len(A.levels) = A.numLevels + 1
    /\ \A i \in 0..(A.numLevels - 1) : At(A.levels, i) <= At(A.levels, i + 1)
    /\ At(A.levels, A.numLevels) = Len(A.items)

\* a merge with a sketch in estimation mode has added a level and grown the
\* items buffer
C20_Witness ==
    /\ last.op = "merge" /\ last.oth.est /\ ~last.pre.est
    /\ A.numLevels >= 2 /\ Len(A.levels) = A.numLevels + 1
    /\ Len(A.items) > A.k /\ At(A.levels, A.numLevels) = Len(A.items)
    /\ At(A.levels, 0) < At(A.levels, 1) /\ At(A.levels, 1) < At(A.levels, 2)

CapacityInIntegers(k, depth, m) ==
    Max(m, Min(k, ((2 * k * (2 ^ depth)) \div (3 ^ depth) + 1) \div 2))

\* C22: for every K in 8..65535, M = 8 and depth = numLevels - l - 1 <= 30,
\* levelCapacity(K, numLevels, l, M) is max(M, min(K, ((2K * 2^depth) div
\* 3^depth + 1) div 2)) computed in unbounded integers; the top level (depth 0)
\* has capacity exactly K.
C22_CapacityWithoutOverflow ==
    out.op = "cap" =>
        /\ out.capacity = CapacityInIntegers(out.k, out.numLevels - out.level - 1, DEFAULT_M)
        /\ out.level = out.numLevels - 1 => out.capacity = out.k

\* the items of level l of s, from levels[l] to levels[l+1] - 1
LevelItems(s, l) ==
    [i \in 1..(At(s.levels, l + 1) - At(s.levels, l)) |-> At(s.items, At(s.levels, l) + i - 1)]

IsSortedRun(run) == \A i \in 1..(Len(run) - 1) : ~lessFn(run[i + 1], run[i])

\* C23: after any sequence of Update and Merge the items of every level
\* l >= 1 of an ItemsSketch are in non-decreasing comparator order; only level 0
\* may be unsorted.
C23_UpperLevelsSorted ==
    \A l \in 1..(A.numLevels - 1) : IsSortedRun(LevelItems(A, l))

\* a level above 0 holds both item values, in order, while level 0 is out of
\* order
C23_Witness ==
    /\ A.numLevels >= 2
    /\ \E l \in 1..(A.numLevels - 1) :
          \E i \in 1..(Len(LevelItems(A, l)) - 1) :
              lessFn(LevelItems(A, l)[i], LevelItems(A, l)[i + 1])
    /\ ~IsSortedRun(LevelItems(A, 0))

\* the levels of s whose population has reached their capacity
FullLevels(s) ==
    {l \in 0..(s.numLevels - 1) :
        At(s.levels, l + 1) - At(s.levels, l) >= levelCapacity(s.k, s.numLevels, l, s.m)}

\* C24: whenever Update finds levels[0] = 0, some level l < numLevels has
\* population >= its capacity, so findLevelToCompact returns a level without
\* indexing past the levels array; and after compressWhileUpdatingSketch
\* levels[0] >= 1, so the new item is written to a free slot.
C24_CompactionIsSafe ==
    At(A.levels, 0) = 0 =>
        /\ FullLevels(A) # {}
        /\ findLevelToCompact(A.k, A.m, A.numLevels, A.levels) \in FullLevels(A)
        /\ At(compressWhileUpdatingSketch(A).levels, 0) >= 1
        /\ \A item \in Items :
              LET next == updateItem(A, item)
              IN /\ At(next.levels, 0) = At(compressWhileUpdatingSketch(A).levels, 0) - 1
                 /\ At(next.items, At(next.levels, 0)) = item
                 /\ GetNumRetained(next) = GetNumRetained(compressWhileUpdatingSketch(A)) + 1

\* updates alone have filled the buffer with level 1 at capacity, added a third
\* level and compacted level 1; the item of the last update is at levels[0]
C24_Witness ==
    /\ last.op = "update" /\ last.pre.est /\ seen.merges = 0
    /\ A.numLevels = 3 /\ A.n = last.pre.n + 1
    /\ At(A.levels, 0) >= 1
    /\ At(A.items, At(A.levels, 0)) = 1

\* the sketch s after the level-0 items of other have been fed to it
AfterLevelZero(s, other) ==
    updateFromLevelZero(s, GetTotalItemsArray(other), At(other.levels, 0), At(other.levels, 1))

\* what generalItemsCompress returns in a merge of other into s1, the sketch
\* after the level-0 updates: [numLevels, targetItemCount, currentItemCount, ..]
CompressResultFrom(s1, other, finalN) ==
    compressWork(s1, Max(s1.numLevels, other.numLevels),
        populateItemWorkArrays(
            MakeItems(GetNumRetained(s1)
                + getNumRetainedAboveLevelZero(other.numLevels, other.levels)),
            MakeLevels(ubOnNumLevels(finalN) + 2),
            Max(s1.numLevels, other.numLevels),
            s1.numLevels, s1.levels, GetTotalItemsArray(s1),
            other.numLevels, other.levels, GetTotalItemsArray(other)),
        ubOnNumLevels(finalN))

CompressResult(s, other) == CompressResultFrom(AfterLevelZero(s, other), other, s.n + other.n)

\* the sketches in estimation mode that are merged into A
EstimationOthers == {o.sk : o \in {x \in Others : x.sk.numLevels > 1}}

\* the retained items of s, each counted with the weight 2^l of its level
RetainedWeight(s) == WeightFrom(s, 0)

\* C25: when A.Merge(B) goes through generalItemsCompress (B.numLevels > 1) the
\* returned retained count never exceeds the returned target capacity for the
\* final numLevels, so freeSpaceAtBottom does not underflow, and the merged
\* sketch has levels[0] = capacity - retained with all retained items in
\* [levels[0], levels[numLevels]).
C25_MergeFitsCapacity ==
    \A other \in EstimationOthers :
        LET result == CompressResult(A, other)
            merged == Merge(A, other)
        IN /\ result.currentItemCount <= result.targetItemCount
           /\ result.targetItemCount = computeTotalItemCapacity(A.k, A.m, result.numLevels)
           /\ merged.numLevels = result.numLevels
           /\ At(merged.levels, 0) = result.targetItemCount - result.currentItemCount
           /\ At(merged.levels, merged.numLevels) = result.targetItemCount
           /\ Len(merged.items) = result.targetItemCount
           /\ GetNumRetained(merged) = result.currentItemCount
           /\ RetainedWeight(merged) = A.n + other.n

\* a sketch in estimation mode has been merged into one: the merged sketch has
\* three levels or more, free space at the bottom and the weight of both
C25_Witness ==
    /\ last.op = "merge" /\ last.oth.est /\ last.pre.est
    /\ A.n = last.pre.n + last.oth.n
    /\ A.numLevels >= 3
    /\ At(A.levels, 0) > 0
    /\ At(A.levels, 0) = Len(A.items) - GetNumRetained(A)
    /\ RetainedWeight(A) = A.n

\* the last call was a query that built the sorted view of the DoubleSketch
ViewJustBuilt ==
    /\ dres.op \in {"cdf", "pmf"}
    /\ dres.pre.n > 0 /\ dres.pre.kllDoublesSV = NoView
    /\ D.kllDoublesSV # NoView

\* the retained items of the DoubleSketch d, from levels[0] on
RetainedDoubles(d) ==
    [i \in 1..(At(d.levelsArr, getNumLevelsD(d)) - At(d.levelsArr, 0)) |->
        At(d.doubleItems, At(d.levelsArr, 0) + i - 1)]

\* how often x occurs in seq
Occurrences(seq, x) == Cardinality({i \in 1..Len(seq) : seq[i] = x})

IsPermutationOf(a, b) ==
    /\ Len(a) = Len(b)
    /\ \A i \in 1..Len(a) : Occurrences(a, a[i]) = Occurrences(b, a[i])

\* C26: building the sorted view of a DoubleSketch whose levels are each sorted
\* yields quantiles in non-decreasing order that are a permutation of the
\* retained items of the sketch, no item lost or duplicated.
C26_ViewIsSortedPermutation ==
    ViewJustBuilt =>
        /\ \A i \in 1..(Len(D.kllDoublesSV[1].quantiles) - 1) :
              D.kllDoublesSV[1].quantiles[i] <= D.kllDoublesSV[1].quantiles[i + 1]
        /\ IsPermutationOf(D.kllDoublesSV[1].quantiles, RetainedDoubles(dres.pre))

\* the weights populateFromSketch gives the retained items of d, before they
\* are made cumulative
UnitWeights(d) ==
    [i \in 1..Len(RetainedDoubles(d)) |->
        weightAt(d.levelsArr, getNumLevelsD(d), At(d.levelsArr, 0), i - 1, 0)]

\* C27: convertToCumulative turns a weights array into its prefix sums: entry i
\* is the sum of the original entries 0..i, and the returned total is the last
\* entry, which for a sorted view is N.
C27_CumulativeIsPrefixSums ==
    ViewJustBuilt =>
        /\ D.kllDoublesSV[1].cumWeights = RunningSums(UnitWeights(dres.pre), 1, 0)
        /\ convertToCumulative(UnitWeights(dres.pre)) = RunningSums(UnitWeights(dres.pre), 1, 0)
        /\ convertToCumulativeTotal(UnitWeights(dres.pre))
              = D.kllDoublesSV[1].cumWeights[Len(D.kllDoublesSV[1].cumWeights)]
        /\ D.kllDoublesSV[1].cumWeights[Len(D.kllDoublesSV[1].cumWeights)] = dres.pre.n

\* the items of level l of the DoubleSketch d
LevelDoubles(d, l) ==
    [i \in 1..(At(d.levelsArr, l + 1) - At(d.levelsArr, l)) |->
        At(d.doubleItems, At(d.levelsArr, l) + i - 1)]

\* C28: building a sorted view does not change the sketch: after the first query
\* on a non-empty DoubleSketch N, the levels array and the multiset of items of
\* each level are the same as before.
C28_ViewLeavesSketch ==
    ViewJustBuilt =>
        /\ D.n = dres.pre.n
        /\ D.levelsArr = dres.pre.levelsArr
        /\ \A l \in 0..(getNumLevelsD(D) - 1) :
              IsPermutationOf(LevelDoubles(D, l), LevelDoubles(dres.pre, l))

\* C29: for an ItemsSketch with N = 1 the serialized array is the 8-byte
\* preamble followed by exactly the serialized single item at offset 8: its
\* length, and GetSerializedSizeBytes, are 8 plus the number of bytes
\* SerializeOneToSlice produces for that item, with no trailing bytes.
C29_SingleItemHasNoTrailingBytes ==
    (out.op = "roundtrip" /\ A.n = 1) =>
        /\ SubSeq(out.bytes, 9, 8 + Len(SerializeOneToSlice(getSingleItem(A))))
              = SerializeOneToSlice(getSingleItem(A))
        /\ Len(out.bytes) = 8 + Len(SerializeOneToSlice(getSingleItem(A)))
        /\ currentSerializedSizeBytes(A) = 8 + Len(SerializeOneToSlice(getSingleItem(A)))

\* C30: A.Merge(B) with A and B distinct leaves B unchanged: its N, K, minK,
\* numLevels, levels, items, min, max and level0Sorted are the same after the
\* merge as before, and later updates to A do not alter B's min or max.
C30_MergeLeavesOther ==
    B.merged => Observed(B.sk, B.cells, B.bMin, B.bMax) = B.pre

\* A was empty when B was merged into it, so it took B's pointers; it has since
\* been fed an item below B's min, and B's min is still what it was
C30_Witness ==
    /\ B.merged /\ B.pre.n > 0 /\ last.op = "update"
    /\ A.n = B.pre.n + 1
    /\ lessFn(A.minItem, B.pre.minItem)
    /\ Deref(B.cells, B.bMin) = B.pre.minItem
    /\ Deref(B.cells, B.aMin) = A.minItem

=============================================================================
